---- MODULE Spec2Model ----
(***************************************************************************)
(* A model of the stock-analysis pipeline:                                 *)
(*   get_api_data               stock_analysis/data.py   (retry/backoff)   *)
(*   get_stock_data             stock_analysis/data.py   (two requests)    *)
(*   get_stock_data_with_cache  stock_analysis/data.py   (expiring cache)  *)
(*   main                       scripts/run_analysis.py  (per-symbol loop) *)
(*   analyze_buy_strategy       stock_analysis/strategies.py (the rules)   *)
(*   calculate_rsi              stock_analysis/indicators.py (RSI column)  *)
(* Every function is a small state machine with its own program counter;   *)
(* a caller waits while its callee runs.  The upstream provider, the file  *)
(* system, the clock and the SMTP server are the environment: each of      *)
(* their answers is a nondeterministic choice.                             *)
(***************************************************************************)
EXTENDS Integers, Sequences, FiniteSets, TLC

VARIABLES
    \* get_api_data: position, parameters, loop variable, what each attempt met and
    \* slept (history), the value returned, the exception raised
    apiPc, url, max_retries, retry_delay, attempt, attempts, apiResult, apiError,
    \* the URLs requested since the outermost call started (history)
    httpLog,
    \* get_stock_data: position, parameter, locals, the value returned, the exception
    \* raised, and per symbol the number of times it was invoked (history)
    gsdPc, gsdSymbol, data_daily, gsdResult, gsdError, fetches,
    \* get_stock_data_with_cache: position, parameters, the value returned, the
    \* exception raised, what the call met on its way (history)
    cachePc, cacheSymbol, cache_expiry_hours, cacheResult, cacheError, cacheCall,
    \* whether the cache directory exists, its files, the wall clock (hours), the
    \* number of calls made so far
    cacheDir, cache, now, calls,
    \* main: position, the run's inputs, the loop's position, the results list, the
    \* value returned, the status the process exits with
    mainPc, symbols_to_analyze, no_email, email_config, cache_expiry, idx, results, mainResult,
    exit_code,
    \* analyze_buy_strategy: its two arguments, the value returned, the exception raised
    stock_data, strategy_params, analysis, analysisError,
    \* calculate_rsi: the close column of df, the window, the rsi column it adds
    close, window, rsi,
    \* process_stock_data: the DataFrame objects and the dict objects that exist (an
    \* object is its place in the list), the dict passed by the caller, the dict
    \* returned (0 before the return)
    frames, dicts, arg, ret,
    \* the second half of get_stock_data: the rows of the daily payload in the order
    \* of its keys, the DataFrame built from them, the values returned
    time_series, series_df, snapshot

apiVars == <<apiPc, url, max_retries, retry_delay, attempt, attempts, apiResult, apiError>>
gsdVars == <<gsdPc, gsdSymbol, data_daily, gsdResult, gsdError, fetches>>
cacheVars == <<cachePc, cacheSymbol, cache_expiry_hours, cacheResult, cacheError, cacheCall, cacheDir, cache, now, calls>>
mainVars == <<mainPc, symbols_to_analyze, no_email, email_config, cache_expiry, idx, results, mainResult,
              exit_code>>

stratVars == <<stock_data, strategy_params, analysis, analysisError>>
rsiVars == <<close, window, rsi>>
processVars == <<frames, dicts, arg, ret>>
seriesVars == <<time_series, series_df, snapshot>>
pureVars == <<stratVars, rsiVars, processVars, seriesVars>>

vars == <<apiVars, httpLog, gsdVars, cacheVars, mainVars, pureVars>>

----------------------------------------------------------------------------
(* Bounds of the exploration *)

\* the largest max_retries a direct call of get_api_data is given
MaxRetriesBound == 3

\* get_stock_data invocations per symbol made by its direct caller
MaxFetches == 2

\* get_stock_data_with_cache calls made by its direct caller
MaxCalls == 2

\* the last hour of the wall clock
MaxTime == 2

\* the longest symbol list of a run of main
MaxSymbols == 2

(* Program constants *)

DefaultMaxRetries == 3
DefaultRetryDelay == 10
DefaultCacheExpiryHours == 4

\* --cache-expiry: the hours a direct caller or a run passes
ExpiryChoices == {1, 2}

RetryDelays == {1, DefaultRetryDelay}

----------------------------------------------------------------------------
(* Values *)

\* Python's None, and "no exception"; records, as the values they stand beside are
None == [none |-> TRUE]
NoError == [type |-> "NoError", site |-> "nowhere"]
NoKey == "NoKey"
\* "no time.sleep call", beside the seconds slept
NoSleep == 0 - 1

Symbols == {"TSLA", "AAPL"}
NoSymbol == "-"
ApiFunctions == {"TIME_SERIES_DAILY", "OVERVIEW"}

\* the f-string URLs of get_stock_data: the endpoint and the symbol decide the URL
Url(fn, symbol) == [function |-> fn, symbol |-> symbol]
NoUrl == Url("-", NoSymbol)

RateLimitNote == "Thank you for using Alpha Vantage! Our standard API call frequency is 5 calls per minute"
OtherNote == "Please consider a premium plan"

\* "API call frequency" in data["Note"]
ContainsMarker(note) == note = RateLimitNote

\* "Note" in data and "API call frequency" in data["Note"]
IsRateLimited(data) == data.Note # NoKey /\ ContainsMarker(data.Note)

\* The decoded JSON bodies the provider can answer with, reduced to the three keys
\* the program reads.  TimeSeries: NoKey, "empty" ({}) or "rows"; PERatio: NoKey,
\* "number" (a numeric string) or "None" (the provider's string for "no figure").
Payload(note, series, pe) == [Note |-> note, TimeSeries |-> series, PERatio |-> pe]

UpstreamPayloads(fn) ==
    {Payload(RateLimitNote, NoKey, NoKey), Payload(OtherNote, NoKey, NoKey), Payload(NoKey, NoKey, NoKey)}
    \cup (IF fn = "TIME_SERIES_DAILY"
          THEN {Payload(NoKey, "rows", NoKey), Payload(NoKey, "empty", NoKey)}
          ELSE {Payload(NoKey, NoKey, "number"), Payload(NoKey, NoKey, "None")})

\* An exception: its class and the place that raises it
Exc(type, site) == [type |-> type, site |-> site]

\* what requests.get / response.json() can raise: transport and parse failures
RequestExceptions ==
    {Exc("ConnectionError", "requests.get"), Exc("JSONDecodeError", "response.json")}

----------------------------------------------------------------------------
(* get_api_data(url, max_retries=3, retry_delay=10) *)

\* for attempt in range(max_retries)
InRange(a, n) == a < n

\* (mutation) a retry that does not advance the loop variable
NextAttemptStuck(a) == a

\* the loop variable after `continue` or after the except clause's sleep
NextAttempt(a) == a + 1

\* (mutation) exponential instead of linear backoff
RateLimitSleepExponential(rd, a) == rd * 2 ^ a

\* time.sleep(retry_delay * (attempt + 1))
RateLimitSleep(rd, a) == rd * (a + 1)

\* if attempt < max_retries - 1: time.sleep(retry_delay) else: raise
RetriesLeft(a, n) == a < n - 1

ApiEnter(u, n, rd) ==
    /\ apiPc' = "loop"
    /\ url' = u
    /\ max_retries' = n
    /\ retry_delay' = rd
    /\ attempt' = 0
    /\ attempts' = <<>>
    /\ apiResult' = None
    /\ apiError' = NoError

\* the call is over and its caller has taken the outcome: the frame is gone
ApiLeave ==
    /\ apiPc' = "idle"
    /\ url' = NoUrl
    /\ max_retries' = DefaultMaxRetries
    /\ retry_delay' = DefaultRetryDelay
    /\ attempt' = 0
    /\ attempts' = <<>>
    /\ apiResult' = None
    /\ apiError' = NoError

\* one loop iteration whose payload carries the rate-limit marker
ApiRateLimited ==
    /\ apiPc = "loop"
    /\ InRange(attempt, max_retries)
    /\ \E data \in UpstreamPayloads(url.function) :
        /\ IsRateLimited(data)
        /\ attempts' = Append(attempts,
              [response |-> "rate_limited", slept |-> RateLimitSleep(retry_delay, attempt)])
    /\ httpLog' = Append(httpLog, url)
    /\ attempt' = NextAttempt(attempt)
    /\ UNCHANGED <<apiPc, url, max_retries, retry_delay, apiResult, apiError>>
    /\ UNCHANGED <<gsdVars, cacheVars, mainVars>>
    /\ UNCHANGED pureVars

\* one loop iteration whose payload is returned
ApiReturn ==
    /\ apiPc = "loop"
    /\ InRange(attempt, max_retries)
    /\ \E data \in UpstreamPayloads(url.function) :
        /\ ~IsRateLimited(data)
        /\ apiResult' = data
    /\ attempts' = Append(attempts, [response |-> "payload", slept |-> NoSleep])
    /\ httpLog' = Append(httpLog, url)
    /\ apiPc' = "returned"
    /\ UNCHANGED <<url, max_retries, retry_delay, attempt, apiError>>
    /\ UNCHANGED <<gsdVars, cacheVars, mainVars>>
    /\ UNCHANGED pureVars

\* one loop iteration in which requests.get or response.json() raises
ApiException ==
    /\ apiPc = "loop"
    /\ InRange(attempt, max_retries)
    /\ httpLog' = Append(httpLog, url)
    /\ \E e \in RequestExceptions :
        IF RetriesLeft(attempt, max_retries)
        THEN /\ attempts' = Append(attempts, [response |-> "exception", slept |-> retry_delay])
             /\ attempt' = NextAttempt(attempt)
             /\ UNCHANGED <<apiPc, apiError>>
        ELSE /\ attempts' = Append(attempts, [response |-> "exception", slept |-> NoSleep])
             /\ apiPc' = "raised"
             /\ apiError' = e
             /\ UNCHANGED attempt
    /\ UNCHANGED <<url, max_retries, retry_delay, apiResult>>
    /\ UNCHANGED <<gsdVars, cacheVars, mainVars>>
    /\ UNCHANGED pureVars

\* the loop ends without a return or a raise: the function's end returns None
ApiExhausted ==
    /\ apiPc = "loop"
    /\ ~InRange(attempt, max_retries)
    /\ apiPc' = "returned"
    /\ apiResult' = None
    /\ UNCHANGED <<url, max_retries, retry_delay, attempt, attempts, apiError, httpLog>>
    /\ UNCHANGED <<gsdVars, cacheVars, mainVars>>
    /\ UNCHANGED pureVars

----------------------------------------------------------------------------
(* get_stock_data(symbol, api_key) *)

\* The record get_stock_data returns, identified by its symbol and by which
\* invocation for that symbol produced it
StockData(symbol, n) == [symbol |-> symbol, fetch |-> n]

\* not time_series, with time_series = data_daily.get("Time Series (Daily)", {})
NoTimeSeries(data) == data.TimeSeries \in {NoKey, "empty"}

\* What the statements after the overview request raise, in program order:
\* data_overview.keys() on None, the empty time series, float("None")
GsdFailure(daily, overview) ==
    CASE overview = None -> Exc("AttributeError", "data_overview.keys")
      [] overview # None /\ NoTimeSeries(daily) -> Exc("ValueError", "time_series")
      [] overview # None /\ ~NoTimeSeries(daily) /\ overview.PERatio = "None" ->
            Exc("ValueError", "float(PERatio)")
      [] OTHER -> NoError

\* entry: the daily request
GsdEnter(symbol) ==
    /\ gsdPc' = "daily"
    /\ gsdSymbol' = symbol
    /\ data_daily' = None
    /\ gsdResult' = None
    /\ gsdError' = NoError
    /\ fetches' = [fetches EXCEPT ![symbol] = @ + 1]
    /\ ApiEnter(Url("TIME_SERIES_DAILY", symbol), DefaultMaxRetries, DefaultRetryDelay)

\* the call is over and its caller has taken the outcome: the frame and the
\* request log kept for it are gone
GsdLeave ==
    /\ gsdPc' = "idle"
    /\ gsdSymbol' = NoSymbol
    /\ data_daily' = None
    /\ gsdResult' = None
    /\ gsdError' = NoError
    /\ httpLog' = <<>>
    /\ UNCHANGED fetches

\* the daily request raised: the exception leaves get_stock_data
GsdDailyRaised ==
    /\ gsdPc = "daily"
    /\ apiPc = "raised"
    /\ gsdPc' = "raised"
    /\ gsdError' = apiError
    /\ ApiLeave
    /\ UNCHANGED <<gsdSymbol, data_daily, gsdResult, fetches>>
    /\ UNCHANGED <<httpLog, cacheVars, mainVars>>
    /\ UNCHANGED pureVars

\* a variant that looks at the time series before asking for the overview
GsdDailyReturnedThenChecked ==
    /\ gsdPc = "daily"
    /\ apiPc = "returned"
    /\ IF apiResult = None
       THEN /\ gsdPc' = "raised"
            /\ gsdError' = Exc("AttributeError", "data_daily.keys")
            /\ ApiLeave
            /\ UNCHANGED data_daily
       ELSE IF NoTimeSeries(apiResult)
       THEN /\ data_daily' = apiResult
            /\ gsdPc' = "raised"
            /\ gsdError' = Exc("ValueError", "time_series")
            /\ ApiLeave
       ELSE /\ data_daily' = apiResult
            /\ gsdPc' = "overview"
            /\ ApiEnter(Url("OVERVIEW", gsdSymbol), DefaultMaxRetries, DefaultRetryDelay)
            /\ UNCHANGED gsdError
    /\ UNCHANGED <<gsdSymbol, gsdResult, fetches>>
    /\ UNCHANGED <<httpLog, cacheVars, mainVars>>
    /\ UNCHANGED pureVars

\* the daily request returned: data_daily.keys(), time.sleep(1), the overview request
GsdDailyReturned ==
    /\ gsdPc = "daily"
    /\ apiPc = "returned"
    /\ IF apiResult = None
       THEN /\ gsdPc' = "raised"
            /\ gsdError' = Exc("AttributeError", "data_daily.keys")
            /\ ApiLeave
            /\ UNCHANGED data_daily
       ELSE /\ data_daily' = apiResult
            /\ gsdPc' = "overview"
            /\ ApiEnter(Url("OVERVIEW", gsdSymbol), DefaultMaxRetries, DefaultRetryDelay)
            /\ UNCHANGED gsdError
    /\ UNCHANGED <<gsdSymbol, gsdResult, fetches>>
    /\ UNCHANGED <<httpLog, cacheVars, mainVars>>
    /\ UNCHANGED pureVars

\* the overview request raised: the exception leaves get_stock_data
GsdOverviewRaised ==
    /\ gsdPc = "overview"
    /\ apiPc = "raised"
    /\ gsdPc' = "raised"
    /\ gsdError' = apiError
    /\ ApiLeave
    /\ UNCHANGED <<gsdSymbol, data_daily, gsdResult, fetches>>
    /\ UNCHANGED <<httpLog, cacheVars, mainVars>>
    /\ UNCHANGED pureVars

\* the overview request returned: the rest of the function
GsdOverviewReturned ==
    /\ gsdPc = "overview"
    /\ apiPc = "returned"
    /\ LET e == GsdFailure(data_daily, apiResult) IN
        IF e # NoError
        THEN /\ gsdPc' = "raised"
             /\ gsdError' = e
             /\ UNCHANGED gsdResult
        ELSE /\ gsdPc' = "returned"
             /\ gsdResult' = StockData(gsdSymbol, fetches[gsdSymbol])
             /\ UNCHANGED gsdError
    /\ ApiLeave
    /\ UNCHANGED <<gsdSymbol, data_daily, fetches>>
    /\ UNCHANGED <<httpLog, cacheVars, mainVars>>
    /\ UNCHANGED pureVars

----------------------------------------------------------------------------
(* A direct caller of get_api_data, for the claims about the fetcher alone *)

FetchCall ==
    /\ apiPc # "loop"
    /\ \E fn \in ApiFunctions, s \in Symbols, n \in 1..MaxRetriesBound, rd \in RetryDelays :
        ApiEnter(Url(fn, s), n, rd)
    /\ httpLog' = <<>>
    /\ UNCHANGED <<gsdVars, cacheVars, mainVars>>
    /\ UNCHANGED pureVars

(* A direct caller of get_stock_data *)

DataCall ==
    /\ gsdPc \notin {"daily", "overview"}
    /\ \E s \in Symbols : fetches[s] < MaxFetches /\ GsdEnter(s)
    /\ httpLog' = <<>>
    /\ UNCHANGED <<cacheVars, mainVars>>
    /\ UNCHANGED pureVars

----------------------------------------------------------------------------
(* get_stock_data_with_cache(symbol, api_key, cache_dir="cache", cache_expiry_hours=4) *)

\* a path with no file, and the bytes a failed dump leaves behind
NoFile == [nofile |-> TRUE]
Truncated == [truncated |-> TRUE]
CacheDir == "cache"

\* (mutation) a file name without the symbol
CacheFileShared(symbol) == CacheDir \o "/" \o "data.pkl"

\* os.path.join(cache_dir, f"{symbol}_data.pkl")
CacheFile(symbol) == CacheDir \o "/" \o symbol \o "_data.pkl"

CacheFiles == {CacheFile(s) : s \in Symbols}

\* (mutation) the comparison turned round
IsFreshReversed(t, mtime, hours) == t - mtime > hours

\* (mutation) an entry exactly as old as the expiry still counts as fresh
IsFreshInclusive(t, mtime, hours) == t - mtime <= hours

\* datetime.now() - file_time < timedelta(hours=cache_expiry_hours)
IsFresh(t, mtime, hours) == t - mtime < hours

\* (mutation) a read that takes whatever the file holds
ReadAnything(entry, readOk) == TRUE

\* pickle.load(f): a file a failed dump left behind never unpickles; reading an
\* intact file succeeds unless the file system or the unpickler fails (readOk)
ReadSucceeds(entry, readOk) == entry.content # Truncated /\ readOk

\* (mutation) a failed read ends the call with nothing instead of falling through
CacheLookupSwallow(entry, t, hours, readOk) ==
    IF entry # NoFile /\ t - entry.mtime < hours
    THEN [returns |-> TRUE,
          value |-> IF entry.content # Truncated /\ readOk THEN entry.content ELSE None]
    ELSE [returns |-> FALSE, value |-> None]

\* The block under "if os.path.exists(cache_file)": whether it returns, and what.
\* A missing file, an expired file and a failed read all fall through to the fetch.
CacheLookup(entry, t, hours, readOk) ==
    IF entry # NoFile /\ IsFresh(t, entry.mtime, hours) /\ ReadSucceeds(entry, readOk)
    THEN [returns |-> TRUE, value |-> entry.content]
    ELSE [returns |-> FALSE, value |-> None]

\* with open(cache_file, 'wb') as f: pickle.dump(data, f), by what the file system
\* does: the write completes, open() raises before the file is touched, or dump
\* raises after open() has emptied the file
StoreOutcomes == {"stored", "open_failed", "dump_failed"}

WriteEntry(old, data, t, outcome) ==
    CASE outcome = "stored" -> [content |-> data, mtime |-> t]
      [] outcome = "open_failed" -> old
      [] outcome = "dump_failed" -> [content |-> Truncated, mtime |-> t]

\* (mutation) the return placed inside the try block, after the dump
CacheReturnValueInTry(data, outcome) == IF outcome = "stored" THEN data ELSE None

\* return data, after the try/except around the store
CacheReturnValue(data, outcome) == data

\* the entry kept for a symbol
EntryOf(symbol) == cache[CacheFile(symbol)]

\* entry: makedirs, the freshness test, the read, and on a miss the call of
\* get_stock_data.  os.makedirs(exist_ok=True) can fail only while the directory
\* is not there yet.
CacheEnter(symbol, hours) ==
    LET entry == EntryOf(symbol) IN
    /\ cacheSymbol' = symbol
    /\ cache_expiry_hours' = hours
    /\ calls' = calls + 1
    /\ \E mkdirOk \in (IF cacheDir THEN {TRUE} ELSE BOOLEAN), readOk \in BOOLEAN :
        LET found == CacheLookup(entry, now, hours, readOk)
            tried == entry # NoFile /\ IsFresh(now, entry.mtime, hours)
        IN
        /\ cacheDir' = mkdirOk
        /\ cacheCall' = [entry |-> entry,
                         at |-> now,
                         read |-> IF ~mkdirOk \/ ~tried THEN "none"
                                  ELSE IF ReadSucceeds(entry, readOk) THEN "ok" ELSE "failed",
                         fetchesBefore |-> fetches[symbol],
                         others |-> [s \in Symbols \ {symbol} |-> EntryOf(s)],
                         store |-> "none"]
        /\ IF ~mkdirOk
           THEN /\ cachePc' = "raised"
                /\ cacheError' = Exc("OSError", "os.makedirs")
                /\ cacheResult' = None
                /\ UNCHANGED <<gsdVars, apiVars>>
           ELSE IF found.returns
           THEN /\ cachePc' = "returned"
                /\ cacheResult' = found.value
                /\ cacheError' = NoError
                /\ UNCHANGED <<gsdVars, apiVars>>
           ELSE /\ cachePc' = "fetch"
                /\ GsdEnter(symbol)
                /\ cacheResult' = None
                /\ cacheError' = NoError
    /\ UNCHANGED <<cache, now>>

\* (mutation) an entry that is there is returned when the fetch fails
OnFetchErrorFallBack(old, error) ==
    IF old # NoFile /\ old.content # Truncated
    THEN [pc |-> "returned", error |-> NoError, result |-> old.content, entry |-> old]
    ELSE [pc |-> "raised", error |-> error, result |-> None, entry |-> old]

\* data = get_stock_data(symbol, api_key) is in no try block: how the call ends
\* when it raises, and what becomes of the entry
OnFetchError(old, error) == [pc |-> "raised", error |-> error, result |-> None, entry |-> old]

\* get_stock_data raised: the exception leaves the function, nothing is stored
CacheFetchRaised ==
    /\ cachePc = "fetch"
    /\ gsdPc = "raised"
    /\ LET out == OnFetchError(EntryOf(cacheSymbol), gsdError)
       IN /\ cachePc' = out.pc
          /\ cacheError' = out.error
          /\ cacheResult' = out.result
          /\ cache' = [cache EXCEPT ![CacheFile(cacheSymbol)] = out.entry]
    /\ GsdLeave
    /\ UNCHANGED <<cacheSymbol, cache_expiry_hours, cacheCall, cacheDir, now, calls>>
    /\ UNCHANGED <<apiVars, mainVars>>
    /\ UNCHANGED pureVars

\* get_stock_data returned: the store inside try/except, then return data
CacheStore ==
    /\ cachePc = "fetch"
    /\ gsdPc = "returned"
    /\ \E outcome \in StoreOutcomes :
        /\ cache' = [cache EXCEPT ![CacheFile(cacheSymbol)] = WriteEntry(@, gsdResult, now, outcome)]
        /\ cacheCall' = [cacheCall EXCEPT !.store = outcome]
        /\ cacheResult' = CacheReturnValue(gsdResult, outcome)
    /\ cachePc' = "returned"
    /\ GsdLeave
    /\ UNCHANGED <<cacheSymbol, cache_expiry_hours, cacheError, cacheDir, now, calls>>
    /\ UNCHANGED <<apiVars, mainVars>>
    /\ UNCHANGED pureVars

\* the call is over and its caller has taken the outcome: the frame is gone
CacheLeave ==
    /\ cachePc' = "idle"
    /\ cacheSymbol' = NoSymbol
    /\ cache_expiry_hours' = DefaultCacheExpiryHours
    /\ cacheResult' = None
    /\ cacheError' = NoError
    /\ cacheCall' = None
    /\ UNCHANGED <<cacheDir, cache, now, calls>>

\* the wall clock, in hours
Tick ==
    /\ now < MaxTime
    /\ now' = now + 1
    /\ UNCHANGED <<cachePc, cacheSymbol, cache_expiry_hours, cacheResult, cacheError, cacheCall, cacheDir, cache, calls>>
    /\ UNCHANGED <<apiVars, httpLog, gsdVars, mainVars>>
    /\ UNCHANGED pureVars

(* A direct caller of get_stock_data_with_cache *)

CacheCall ==
    /\ cachePc # "fetch"
    /\ calls < MaxCalls
    /\ \E s \in Symbols, h \in ExpiryChoices : CacheEnter(s, h)
    /\ UNCHANGED <<httpLog, mainVars>>
    /\ UNCHANGED pureVars

----------------------------------------------------------------------------
(* main() of scripts/run_analysis.py *)

\* config.get('email', {}) and the environment: a dict that, with EMAIL_FROM,
\* EMAIL_PASSWORD and EMAIL_TO, gives all three credentials ("complete"), a dict
\* that leaves one of them empty ("incomplete"), or None, what the YAML loader
\* gives for an `email:` key with nothing under it ("null")
EmailConfigs == {"complete", "incomplete", "null"}

\* send_email_report: email_config.get raises on None; missing credentials return
\* an error status; create_price_chart is outside the try and may raise; the SMTP
\* session is inside it and ends in a returned status
SendEmailReport(cfg) ==
    CASE cfg = "null" -> {"raises"}
      [] cfg = "incomplete" -> {"status_error"}
      [] cfg = "complete" -> {"raises", "status_success", "status_error"}

\* send_error_email: email_config.get raises on None; missing credentials return
\* an error status; the SMTP session is inside the try and ends in a returned status
SendErrorEmail(cfg) ==
    CASE cfg = "null" -> {"raises"}
      [] cfg = "incomplete" -> {"status_error"}
      [] cfg = "complete" -> {"status_success", "status_error"}

\* the ways the statements of the try block after the fetch can end:
\* process_stock_data or analyze_buy_strategy raises, or the report is sent or not
PipelineOutcomes(noEmail, cfg) ==
    {"process_raises", "analyze_raises"}
    \cup (IF noEmail THEN {"not_sent"} ELSE SendEmailReport(cfg))

SymbolLists == UNION {[1..n -> Symbols] : n \in 0..MaxSymbols}

CountSuccess(rs) == Cardinality({i \in 1..Len(rs) : rs[i].status = "success"})

\* "success" if error_count == 0 else "partial_success" if success_count > 0 else "error"
RunStatus(success_count, error_count) ==
    IF error_count = 0 THEN "success"
    ELSE IF success_count > 0 THEN "partial_success" ELSE "error"

\* the except clause of the loop body: the error email, then the error entry
MainHandler(symbol) ==
    \E mail \in (IF no_email THEN {"not_sent"} ELSE SendErrorEmail(email_config)) :
        IF mail = "raises"
        THEN /\ mainPc' = "raised"
             /\ UNCHANGED <<results, idx>>
        ELSE /\ results' = Append(results, [symbol |-> symbol, status |-> "error"])
             /\ idx' = idx + 1
             /\ mainPc' = "loop"

\* the start of a run: arguments, configuration, the API key test
MainStart ==
    /\ mainPc = "idle"
    /\ \E syms \in SymbolLists, ne \in BOOLEAN, cfg \in EmailConfigs, h \in ExpiryChoices,
          key \in BOOLEAN :
        /\ symbols_to_analyze' = syms
        /\ cache_expiry' = h
        /\ no_email' = ne
        /\ email_config' = cfg
        /\ IF ~key
           THEN /\ mainPc' = "returned"
                /\ mainResult' = [status |-> "error", error |-> "no API key"]
           ELSE /\ mainPc' = "loop"
                /\ mainResult' = None
    /\ idx' = 1
    /\ results' = <<>>
    /\ UNCHANGED exit_code
    /\ UNCHANGED <<apiVars, httpLog, gsdVars, cacheVars>>
    /\ UNCHANGED pureVars

\* the head of the loop body: the call of get_stock_data_with_cache
MainFetch ==
    /\ mainPc = "loop"
    /\ idx <= Len(symbols_to_analyze)
    /\ mainPc' = "data"
    /\ CacheEnter(symbols_to_analyze[idx], cache_expiry)
    /\ UNCHANGED httpLog
    /\ UNCHANGED <<symbols_to_analyze, no_email, email_config, cache_expiry, idx, results, mainResult, exit_code>>
    /\ UNCHANGED pureVars

\* get_stock_data_with_cache raised: the except clause
MainFetchRaised ==
    /\ mainPc = "data"
    /\ cachePc = "raised"
    /\ MainHandler(symbols_to_analyze[idx])
    /\ CacheLeave
    /\ UNCHANGED <<symbols_to_analyze, no_email, email_config, cache_expiry, mainResult, exit_code>>
    /\ UNCHANGED <<apiVars, httpLog, gsdVars>>
    /\ UNCHANGED pureVars

\* get_stock_data_with_cache returned: the rest of the try block
MainPipeline ==
    /\ mainPc = "data"
    /\ cachePc = "returned"
    /\ \E out \in PipelineOutcomes(no_email, email_config) :
        IF out \in {"process_raises", "analyze_raises", "raises"}
        THEN MainHandler(symbols_to_analyze[idx])
        ELSE /\ results' = Append(results, [symbol |-> symbols_to_analyze[idx], status |-> "success"])
             /\ idx' = idx + 1
             /\ mainPc' = "loop"
    /\ CacheLeave
    /\ UNCHANGED <<symbols_to_analyze, no_email, email_config, cache_expiry, mainResult, exit_code>>
    /\ UNCHANGED <<apiVars, httpLog, gsdVars>>
    /\ UNCHANGED pureVars

\* after the loop: the summary
MainFinish ==
    /\ mainPc = "loop"
    /\ idx > Len(symbols_to_analyze)
    /\ LET success_count == CountSuccess(results)
           error_count == Len(results) - success_count
       IN mainResult' = [status |-> RunStatus(success_count, error_count),
                         success_count |-> success_count,
                         error_count |-> error_count,
                         results |-> results]
    /\ mainPc' = "returned"
    /\ UNCHANGED <<symbols_to_analyze, no_email, email_config, cache_expiry, idx, results, exit_code>>
    /\ UNCHANGED <<apiVars, httpLog, gsdVars, cacheVars>>
    /\ UNCHANGED pureVars

\* the process has not exited
NoExit == 0 - 1

\* a variant that lets only a full success exit with 0
ExitCodeStrict(status) == IF status = "success" THEN 0 ELSE 1

\* exit_code = 0 if result["status"] in ["success", "partial_success"] else 1
ExitCode(status) == IF status \in {"success", "partial_success"} THEN 0 ELSE 1

\* the script's entry point: exit with the code of main's result, or with 1 when
\* main raised
MainExit ==
    /\ mainPc \in {"returned", "raised"}
    /\ exit_code = NoExit
    /\ exit_code' = (IF mainPc = "returned" THEN ExitCode(mainResult.status) ELSE 1)
    /\ UNCHANGED <<mainPc, symbols_to_analyze, no_email, email_config, cache_expiry, idx, results,
                   mainResult>>
    /\ UNCHANGED <<apiVars, httpLog, gsdVars, cacheVars>>
    /\ UNCHANGED pureVars

----------------------------------------------------------------------------
(* Floating-point values: a ratio of integers, a NaN or an infinity *)

\* num / den with den > 0
Num(n, d) == [kind |-> "num", num |-> (IF d < 0 THEN 0 - n ELSE n), den |-> (IF d < 0 THEN 0 - d ELSE d)]

FloatNaN == [kind |-> "nan", num |-> 0, den |-> 1]

PlusInf == [kind |-> "inf", num |-> 1, den |-> 1]

MinusInf == [kind |-> "inf", num |-> 0 - 1, den |-> 1]

\* raised instead of a value
ZeroDivision == [kind |-> "ZeroDivisionError", num |-> 0, den |-> 1]

\* a / b for two numbers: by zero, Python's own int and float raise
\* ZeroDivisionError, numpy's float64 (the type of the pipeline's values) gives
\* nan for 0 / 0 and a signed infinity otherwise
Div(a, b, dtype) ==
    IF b # 0 THEN Num(a, b)
    ELSE IF dtype = "python" THEN ZeroDivision
    ELSE IF a = 0 THEN FloatNaN
    ELSE IF a > 0 THEN PlusInf ELSE MinusInf

\* x * k for an integer k > 0
Times(x, k) == IF x.kind = "num" THEN Num(x.num * k, x.den) ELSE x

\* x < k for an integer k; every comparison with nan is False
Less(x, k) ==
    CASE x.kind = "num" -> x.num < k * x.den
      [] x.kind = "inf" -> x.num < 0
      [] OTHER -> FALSE

\* round(x, 2), in hundredths: the nearest hundredth, a tie going to the even one;
\* nan and the infinities are kept
RoundHalfEven(n, d) ==
    LET q == n \div d
        r == n - q * d
    IN IF 2 * r < d THEN q
       ELSE IF 2 * r > d THEN q + 1
       ELSE IF q % 2 = 0 THEN q ELSE q + 1

Round2(x) ==
    IF x.kind = "num" THEN [kind |-> "num", hundredths |-> RoundHalfEven(x.num * 100, x.den)]
    ELSE [kind |-> x.kind, hundredths |-> x.num]

----------------------------------------------------------------------------
(* analyze_buy_strategy (stock_analysis/strategies.py) *)

\* ma50, ma200 and rsi of a series too short for their window: nan
NaN == 0 - 1

\* calculate_rsi(df, window=14)
DefaultRsiWindow == 14

DefaultRsiThreshold == 30

DefaultPricePositionThreshold == 33

\* ma_proximity_threshold, in hundredths: 0.05
DefaultMaProximityThreshold == 5

DefaultParams ==
    [rsi_threshold |-> DefaultRsiThreshold,
     price_position_threshold |-> DefaultPricePositionThreshold,
     ma_proximity_threshold |-> DefaultMaProximityThreshold]

\* prices, in currency units
PriceValues == {100, 140, 150, 152, 160, 200}

HighValues == {100, 160, 200}

LowValues == {100, 140, 200}

MaValues == {140, 160, NaN}

RsiValues == {25, 30, 50, NaN}

\* the data argument: the six values the function reads, and their numeric type
\* (Python's own numbers, or the numpy float64 the pipeline produces)
StockDatas ==
    [current_price : PriceValues, high_52_week : HighValues, low_52_week : LowValues,
     ma50 : MaValues, ma200 : MaValues, rsi : RsiValues,
     dtype : {"python", "numpy"}]

\* the strategy_params argument: None, or a dict with some of the three keys
StrategyParams ==
    {None, [rsi_threshold |-> 40], [price_position_threshold |-> 55, ma_proximity_threshold |-> 10],
     DefaultParams}

\* if strategy_params is None: strategy_params = {...}
ParamsOrDefault(params) == IF params = None THEN DefaultParams ELSE params

\* strategy_params.get(key, default)
Get(params, key, default) == IF key \in DOMAIN params THEN params[key] ELSE default

\* a variant measured down from the high
PricePositionFromHigh(d) ==
    Times(Div(d.high_52_week - d.current_price, d.high_52_week - d.low_52_week, d.dtype), 100)

\* price_position = (current_price - low_52_week) / (high_52_week - low_52_week) * 100
PricePosition(d) ==
    Times(Div(d.current_price - d.low_52_week, d.high_52_week - d.low_52_week, d.dtype), 100)

\* a < b on two values either of which may be nan
\* a variant for indicators filled with a number where they are undefined
LessThanFilled(a, b) == a < b

LessThan(a, b) == a # NaN /\ b # NaN /\ a < b

Abs(x) == IF x < 0 THEN 0 - x ELSE x

\* abs(current_price - ma50) / ma50 < ma_proximity_threshold, ma50 > 0
NearMa50(d, threshold) ==
    d.ma50 # NaN /\ Abs(d.current_price - d.ma50) * 100 < threshold * d.ma50

\* buy_signals after the four if statements, each appending to the list that the
\* statements before it left
Signals1(d, params) ==
    LET rsi_threshold == Get(params, "rsi_threshold", DefaultRsiThreshold)
    IN IF LessThan(d.rsi, rsi_threshold) THEN <<"rsi_oversold">> ELSE <<>>

\* a variant with elif: rule 2 looked at only when rule 1 did not fire
Signals2Else(d, params) ==
    LET buy_signals == Signals1(d, params)
    IN IF buy_signals = <<>> /\ LessThan(d.current_price, d.ma50) /\ LessThan(d.ma200, d.current_price)
       THEN Append(buy_signals, "pullback")
       ELSE buy_signals

Signals2(d, params) ==
    LET buy_signals == Signals1(d, params)
    IN IF LessThan(d.current_price, d.ma50) /\ LessThan(d.ma200, d.current_price)
       THEN Append(buy_signals, "pullback")
       ELSE buy_signals

Signals3(d, params, price_position) ==
    LET buy_signals == Signals2(d, params)
        price_position_threshold ==
            Get(params, "price_position_threshold", DefaultPricePositionThreshold)
    IN IF Less(price_position, price_position_threshold)
       THEN Append(buy_signals, "lower_position")
       ELSE buy_signals

\* a variant of rule 4 that stays silent once rule 2 has spoken
Signals4Exclusive(d, params, price_position) ==
    LET buy_signals == Signals3(d, params, price_position)
        ma_proximity_threshold ==
            Get(params, "ma_proximity_threshold", DefaultMaProximityThreshold)
    IN IF /\ LessThan(d.ma200, d.ma50) /\ NearMa50(d, ma_proximity_threshold)
          /\ \A k \in 1..Len(buy_signals) : buy_signals[k] # "pullback"
       THEN Append(buy_signals, "golden_cross")
       ELSE buy_signals

\* a variant of rule 4 without the proximity test
Signals4NoProximity(d, params, price_position) ==
    LET buy_signals == Signals3(d, params, price_position)
    IN IF LessThan(d.ma200, d.ma50)
       THEN Append(buy_signals, "golden_cross")
       ELSE buy_signals

Signals4(d, params, price_position) ==
    LET buy_signals == Signals3(d, params, price_position)
        ma_proximity_threshold ==
            Get(params, "ma_proximity_threshold", DefaultMaProximityThreshold)
    IN IF LessThan(d.ma200, d.ma50) /\ NearMa50(d, ma_proximity_threshold)
       THEN Append(buy_signals, "golden_cross")
       ELSE buy_signals

\* a variant asking for more than two signals
RecommendationStrict(buy_signals) ==
    IF Len(buy_signals) > 2 THEN "BUY_CANDIDATE"
    ELSE IF Len(buy_signals) = 1 THEN "WATCH"
    ELSE "AVOID"

\* the recommendation: BUY_CANDIDATE for "可以考虑买入", WATCH for "观望",
\* AVOID for "不建议买入"
Recommendation(buy_signals) ==
    IF Len(buy_signals) >= 2 THEN "BUY_CANDIDATE"
    ELSE IF Len(buy_signals) = 1 THEN "WATCH"
    ELSE "AVOID"

\* a variant whose second test repeats the third one's bound
MarketPositionWideLower(price_position) ==
    IF Less(price_position, 20) THEN "near_low"
    ELSE IF Less(price_position, 60) THEN "lower"
    ELSE IF Less(price_position, 60) THEN "middle"
    ELSE IF Less(price_position, 80) THEN "higher"
    ELSE "near_high"

\* the market position: the if/elif chain over price_position
MarketPosition(price_position) ==
    IF Less(price_position, 20) THEN "near_low"
    ELSE IF Less(price_position, 40) THEN "lower"
    ELSE IF Less(price_position, 60) THEN "middle"
    ELSE IF Less(price_position, 80) THEN "higher"
    ELSE "near_high"

\* the dict returned
AnalysisResult(d, params, price_position) ==
    LET buy_signals == Signals4(d, params, price_position)
    IN [buy_signals |-> buy_signals,
        signals_count |-> Len(buy_signals),
        recommendation |-> Recommendation(buy_signals),
        market_position |-> MarketPosition(price_position),
        price_position_percentage |-> Round2(price_position)]

\* the call returns its result
AnalyzeReturn ==
    /\ analysis = None
    /\ analysisError = NoError
    /\ LET params == ParamsOrDefault(strategy_params)
           price_position == PricePosition(stock_data)
       IN /\ price_position.kind # "ZeroDivisionError"
          /\ analysis' = AnalysisResult(stock_data, params, price_position)
    /\ UNCHANGED <<stock_data, strategy_params, analysisError>>
    /\ UNCHANGED <<apiVars, httpLog, gsdVars, cacheVars, mainVars, rsiVars, processVars, seriesVars>>

\* the call raises at the division of line 27
AnalyzeRaise ==
    /\ analysis = None
    /\ analysisError = NoError
    /\ PricePosition(stock_data).kind = "ZeroDivisionError"
    /\ analysisError' = Exc("ZeroDivisionError", "price_position")
    /\ UNCHANGED <<stock_data, strategy_params, analysis>>
    /\ UNCHANGED <<apiVars, httpLog, gsdVars, cacheVars, mainVars, rsiVars, processVars, seriesVars>>

----------------------------------------------------------------------------
(* calculate_rsi (stock_analysis/indicators.py) *)

\* the longest close column
MaxLen == 16

\* the close of the first row, and the day-over-day changes a column is made of
FirstClose == 50

Changes == {0 - 2, 0 - 1, 0, 1}

RECURSIVE Walk(_, _)
\* the column that starts at a close and goes on by the given changes
Walk(start, changes) ==
    IF changes = <<>> THEN <<start>>
    ELSE <<start>> \o Walk(start + Head(changes), Tail(changes))

\* the close columns: n rows, the first a changes all d1, the rest all d2
CloseColumns ==
    {Walk(FirstClose, [i \in 1..(n - 1) |-> IF i <= a THEN d1 ELSE d2]) :
        n \in 1..MaxLen, a \in 0..MaxLen, d1 \in Changes, d2 \in Changes}

\* the window argument: the default, and a short one
Windows == {2, DefaultRsiWindow}

\* delta = df['close'].diff(): nan in the first row
Delta(col, i) == IF i = 1 THEN FloatNaN ELSE Num(col[i] - col[i - 1], 1)

\* gain = delta.where(delta > 0, 0): the value where the condition holds, 0 where
\* it does not, as in the first row, whose nan is not > 0
Gain(col, i) ==
    LET delta == Delta(col, i)
    IN IF delta.kind = "num" /\ delta.num > 0 THEN delta.num ELSE 0

\* loss = -delta.where(delta < 0, 0)
Loss(col, i) ==
    LET delta == Delta(col, i)
    IN 0 - (IF delta.kind = "num" /\ delta.num < 0 THEN delta.num ELSE 0)

\* row i of the column gain or loss
Column(name, col, i) == IF name = "gain" THEN Gain(col, i) ELSE Loss(col, i)

RECURSIVE SumOver(_, _, _, _)
\* the sum of a column (Gain or Loss) over the rows lo..hi
SumOver(name, col, lo, hi) ==
    IF lo > hi THEN 0 ELSE Column(name, col, lo) + SumOver(name, col, lo + 1, hi)

\* rolling(window=w).mean(): nan until w rows are in the window
RollingMean(name, col, i, w) ==
    IF i < w THEN FloatNaN ELSE Num(SumOver(name, col, i - w + 1, i), w)

\* x / y on float64 columns
FloatDiv(x, y) ==
    IF x.kind = "nan" \/ y.kind = "nan" THEN FloatNaN
    ELSE IF y.num = 0 THEN Div(x.num, 0, "numpy")
    ELSE Num(x.num * y.den, x.den * y.num)

\* 1 + x
OnePlus(x) == IF x.kind = "num" THEN Num(x.den + x.num, x.den) ELSE x

\* 100 / x
HundredOver(x) ==
    CASE x.kind = "nan" -> FloatNaN
      [] x.kind = "inf" -> Num(0, 1)
      [] OTHER -> IF x.num = 0 THEN PlusInf ELSE Num(100 * x.den, x.num)

\* 100 - x
HundredMinus(x) ==
    CASE x.kind = "nan" -> FloatNaN
      [] x.kind = "inf" -> (IF x.num > 0 THEN MinusInf ELSE PlusInf)
      [] OTHER -> Num(100 * x.den - x.num, x.den)

\* rs = avg_gain / avg_loss; df['rsi'] = 100 - (100 / (1 + rs))
RsiAt(col, i, w) ==
    LET avg_gain == RollingMean("gain", col, i, w)
        avg_loss == RollingMean("loss", col, i, w)
        rs == FloatDiv(avg_gain, avg_loss)
    IN HundredMinus(HundredOver(OnePlus(rs)))

\* the call: the rsi column is added to df
CalculateRsi ==
    /\ rsi = <<>>
    /\ rsi' = [i \in 1..Len(close) |-> RsiAt(close, i, window)]
    /\ UNCHANGED <<close, window>>
    /\ UNCHANGED <<apiVars, httpLog, gsdVars, cacheVars, mainVars, stratVars, processVars, seriesVars>>

----------------------------------------------------------------------------
(* process_stock_data and the indicator functions (stock_analysis/indicators.py) *)

\* the longest series given to process_stock_data
MaxRows == 201

\* calculate_moving_averages(df, windows=[50, 200])
MaWindows == {50, 200}

\* calculate_bollinger_bands(df, window=20, num_std=2)
BollingerWindow == 20

\* the close columns: n rows that go up from 100 and start again every m rows
SeriesColumns ==
    {[i \in 1..n |-> 100 + ((i * k) % m)] : n \in 1..MaxRows, k \in {1, 3}, m \in {1, 7}}

RECURSIVE SumRows(_, _, _)
\* col[lo] + ... + col[hi]
SumRows(col, lo, hi) == IF lo > hi THEN 0 ELSE col[lo] + SumRows(col, lo + 1, hi)

\* a variant that is content with one row less than the window
RollingCloseMeanShort(col, w) ==
    [i \in 1..Len(col) |->
        IF i < w - 1 THEN FloatNaN
        ELSE Num(SumRows(col, (IF i - w + 1 < 1 THEN 1 ELSE i - w + 1), i), w)]

\* result['close'].rolling(window=w).mean(): nan until w rows are in the window
RollingCloseMean(col, w) ==
    [i \in 1..Len(col) |-> IF i < w THEN FloatNaN ELSE Num(SumRows(col, i - w + 1, i), w)]

\* a column whose values no definition here reads (exponential means, standard
\* deviations)
Unread(col, name) == [i \in 1..Len(col) |-> name]

\* df.copy(): a new object with the same columns; it is the last of the list
CopyFrame(fs, df) == Append(fs, fs[df])

\* df[name] = col: the object itself changes
SetColumn(fs, df, name, col) == [fs EXCEPT ![df] = (name :> col) @@ @]

\* each function below gives the objects after the call and the object returned

\* result = df.copy(); result['ma50'] = ..., result['ma200'] = ...; return result
calculate_moving_averages(fs, df) ==
    LET copied == CopyFrame(fs, df)
        result == Len(copied)
        with50 == SetColumn(copied, result, "ma50", RollingCloseMean(copied[result].close, 50))
        with200 == SetColumn(with50, result, "ma200", RollingCloseMean(with50[result].close, 200))
    IN [frames |-> with200, ret |-> result]

\* df['rsi'] = ...; return df
calculate_rsi(fs, df) ==
    [frames |-> SetColumn(fs, df, "rsi",
                    [i \in 1..Len(fs[df].close) |-> RsiAt(fs[df].close, i, DefaultRsiWindow)]),
     ret |-> df]

\* df['macd'], df['signal'], df['macd_hist'] = ...; return df
calculate_macd(fs, df) ==
    LET col == fs[df].close
        fs1 == SetColumn(fs, df, "macd", Unread(col, "macd"))
        fs2 == SetColumn(fs1, df, "signal", Unread(col, "signal"))
    IN [frames |-> SetColumn(fs2, df, "macd_hist", Unread(col, "macd_hist")), ret |-> df]

\* df['ma20'], df['upper_band'], df['lower_band'] = ...; return df
calculate_bollinger_bands(fs, df) ==
    LET col == fs[df].close
        fs1 == SetColumn(fs, df, "ma20", RollingCloseMean(col, BollingerWindow))
        fs2 == SetColumn(fs1, df, "upper_band", Unread(col, "upper_band"))
    IN [frames |-> SetColumn(fs2, df, "lower_band", Unread(col, "lower_band")), ret |-> df]

\* df = calculate_moving_averages(df); df = calculate_rsi(df); ...; return df
calculate_all_indicators(fs, df) ==
    LET a == calculate_moving_averages(fs, df)
        b == calculate_rsi(a.frames, a.ret)
        c == calculate_macd(b.frames, b.ret)
    IN calculate_bollinger_bands(c.frames, c.ret)

\* a variant without the copy: the caller's dict itself
AliasDict(ds, d) == [dicts |-> ds, ret |-> d]

\* stock_data.copy(): a new dict with the same keys and values; it is the last of
\* the list
CopyDict(ds, d) == [dicts |-> Append(ds, ds[d]), ret |-> Len(ds) + 1]

\* d[key] = value
SetKey(ds, d, key, value) == [ds EXCEPT ![d] = (key :> value) @@ @]

\* the value of a column in the row of latest_date = df.index[-1]
Latest(frame, name) == frame[name][Len(frame[name])]

\* the call of process_stock_data(stock_data) by a caller that holds the dict arg
ProcessStockData ==
    /\ ret = 0
    /\ LET copied == CopyFrame(frames, dicts[arg].df)
           computed == calculate_all_indicators(copied, Len(copied))
           df == computed.ret
           frame == computed.frames[df]
           result == CopyDict(dicts, arg)
           d1 == SetKey(result.dicts, result.ret, "df", df)
           d2 == SetKey(d1, result.ret, "ma50", Round2(Latest(frame, "ma50")))
           d3 == SetKey(d2, result.ret, "ma200", Round2(Latest(frame, "ma200")))
           d4 == SetKey(d3, result.ret, "rsi", Round2(Latest(frame, "rsi")))
       IN /\ frames' = computed.frames
          /\ dicts' = d4
          /\ ret' = result.ret
    /\ UNCHANGED arg
    /\ UNCHANGED <<apiVars, httpLog, gsdVars, cacheVars, mainVars, stratVars, rsiVars, seriesVars>>

----------------------------------------------------------------------------
(* The price series of get_stock_data and detect_price_anomalies (stock_analysis/data.py) *)

\* the most rows a daily payload has
MaxSeries == 4

\* one_year_ago = latest_date - timedelta(days=365)
DaysOfWindow == 365

\* detect_price_anomalies(df, threshold=0.15), in percent: threshold * 100
DefaultAnomalyThreshold == 15

\* the dates of the payload, in days
Dates == {0, 1, 2, 366}

\* the bars of a day: prices in currency units
Bars ==
    {[close |-> c, high |-> c + 5, low |-> c - 5] : c \in {75, 80, 100, 115}}
    \cup {[close |-> 100, high |-> 150, low |-> 50]}

\* the rows of a payload: its dates are the keys of a JSON object, no two alike,
\* in any order
IsInjective(f) == \A i, j \in DOMAIN f : f[i] = f[j] => i = j

Payloads ==
    UNION {{[i \in 1..n |-> [date |-> ds[i], close |-> bs[i].close, high |-> bs[i].high,
                             low |-> bs[i].low]] :
               ds \in {f \in [1..n -> Dates] : IsInjective(f)}, bs \in [1..n -> Bars]} :
           n \in 1..MaxSeries}

RECURSIVE Insert(_, _)
\* a row put at its place in rows that ascend by date
Insert(row, rows) ==
    IF rows = <<>> THEN <<row>>
    ELSE IF row.date <= Head(rows).date THEN <<row>> \o rows
    ELSE <<Head(rows)>> \o Insert(row, Tail(rows))

\* a variant that leaves the rows in the order of the payload
KeepOrder(rows) == rows

RECURSIVE SortIndex(_)
\* df.sort_index()
SortIndex(rows) == IF rows = <<>> THEN <<>> ELSE Insert(Head(rows), SortIndex(Tail(rows)))

\* a variant that counts rows: the last 2 rows, whatever their dates
LastRows(rows, latest_date) == SubSeq(rows, (IF Len(rows) > 2 THEN Len(rows) - 1 ELSE 1), Len(rows))

\* df[df.index >= one_year_ago]
Last52Weeks(rows, latest_date) ==
    SelectSeq(rows, LAMBDA row : row.date >= latest_date - DaysOfWindow)

RECURSIVE MaxHigh(_)
\* df_52_weeks['high'].max()
MaxHigh(rows) ==
    IF Len(rows) = 1 THEN rows[1].high
    ELSE LET rest == MaxHigh(Tail(rows)) IN IF rows[1].high >= rest THEN rows[1].high ELSE rest

RECURSIVE MinLow(_)
\* df_52_weeks['low'].min()
MinLow(rows) ==
    IF Len(rows) = 1 THEN rows[1].low
    ELSE LET rest == MinLow(Tail(rows)) IN IF rows[1].low <= rest THEN rows[1].low ELSE rest

\* df['price_change_pct'] = df['close'].pct_change() * 100: nan in the first row
PriceChangePct(rows, i) ==
    IF i = 1 THEN FloatNaN
    ELSE Times(Num(rows[i].close - rows[i - 1].close, rows[i - 1].close), 100)

\* abs(x) > k for an integer k; false for nan
AbsAbove(x, k) == x.kind = "num" /\ Abs(x.num) > k * x.den

\* abs(x) > abs(y) for two numbers
AbsGreater(x, y) == Abs(x.num) * y.den > Abs(y.num) * x.den

\* the rows of large_changes: abs(df['price_change_pct']) > threshold * 100
LargeChanges(rows, threshold) ==
    {i \in 1..Len(rows) : AbsAbove(PriceChangePct(rows, i), threshold)}

\* a variant that gives the last of the largest
IdxMaxLast(rows, large) ==
    CHOOSE i \in large :
        \A j \in large :
            /\ ~AbsGreater(PriceChangePct(rows, j), PriceChangePct(rows, i))
            /\ (j > i => AbsGreater(PriceChangePct(rows, i), PriceChangePct(rows, j)))

\* large_changes['price_change_pct'].abs().idxmax(): the first of the largest
IdxMax(rows, large) ==
    CHOOSE i \in large :
        \A j \in large :
            /\ ~AbsGreater(PriceChangePct(rows, j), PriceChangePct(rows, i))
            /\ (j < i => AbsGreater(PriceChangePct(rows, i), PriceChangePct(rows, j)))

\* detect_price_anomalies(df, threshold)
detect_price_anomalies(rows, threshold) ==
    LET sorted == SortIndex(rows)
        large_changes == LargeChanges(sorted, threshold)
    IN IF large_changes = {}
       THEN [detected |-> FALSE, date |-> None, change_pct |-> None]
       ELSE LET max_change_idx == IdxMax(sorted, large_changes)
            IN [detected |-> TRUE,
                date |-> sorted[max_change_idx].date,
                change_pct |-> Round2(PriceChangePct(sorted, max_change_idx))]

\* get_stock_data from the DataFrame on: the sorted frame, the latest row, the 52
\* weeks before it, the dict returned
NormalizeSeries ==
    /\ series_df = <<>>
    /\ LET sorted == SortIndex(time_series)
           latest_date == sorted[Len(sorted)].date
           current_price == sorted[Len(sorted)].close
           df_52_weeks == Last52Weeks(sorted, latest_date)
       IN /\ series_df' = sorted
          /\ snapshot' =
                [date |-> latest_date,
                 current_price |-> Round2(Num(current_price, 1)),
                 high_52_week |-> Round2(Num(MaxHigh(df_52_weeks), 1)),
                 low_52_week |-> Round2(Num(MinLow(df_52_weeks), 1)),
                 price_anomaly |-> detect_price_anomalies(df_52_weeks, DefaultAnomalyThreshold)]
    /\ UNCHANGED time_series
    /\ UNCHANGED <<apiVars, httpLog, gsdVars, cacheVars, mainVars, stratVars, rsiVars, processVars>>

----------------------------------------------------------------------------
(* Specifications *)

InitPipeline ==
    /\ apiPc = "idle"
    /\ url = NoUrl
    /\ max_retries = DefaultMaxRetries
    /\ retry_delay = DefaultRetryDelay
    /\ attempt = 0
    /\ attempts = <<>>
    /\ apiResult = None
    /\ apiError = NoError
    /\ httpLog = <<>>
    /\ gsdPc = "idle"
    /\ gsdSymbol = NoSymbol
    /\ data_daily = None
    /\ gsdResult = None
    /\ gsdError = NoError
    /\ fetches = [s \in Symbols |-> 0]
    /\ cachePc = "idle"
    /\ cacheSymbol = NoSymbol
    /\ cache_expiry_hours = DefaultCacheExpiryHours
    /\ cacheResult = None
    /\ cacheError = NoError
    /\ cacheCall = None
    /\ cacheDir = FALSE
    /\ cache = [f \in CacheFiles |-> NoFile]
    /\ now = 0
    /\ calls = 0
    /\ mainPc = "idle"
    /\ symbols_to_analyze = <<>>
    /\ no_email = FALSE
    /\ email_config = "complete"
    /\ idx = 1
    /\ results = <<>>
    /\ mainResult = None
    /\ exit_code = NoExit
    /\ cache_expiry = DefaultCacheExpiryHours

\* no call of analyze_buy_strategy
InitNoAnalysis ==
    /\ stock_data = None
    /\ strategy_params = None
    /\ analysis = None
    /\ analysisError = NoError

\* no call of calculate_rsi
InitNoRsi ==
    /\ close = <<>>
    /\ window = DefaultRsiWindow
    /\ rsi = <<>>

\* no call of process_stock_data
InitNoProcess ==
    /\ frames = <<>>
    /\ dicts = <<>>
    /\ arg = 0
    /\ ret = 0

\* no daily payload
InitNoSeries ==
    /\ time_series = <<>>
    /\ series_df = <<>>
    /\ snapshot = None

Init == InitPipeline /\ InitNoAnalysis /\ InitNoRsi /\ InitNoProcess /\ InitNoSeries

\* a call of analyze_buy_strategy with any arguments
InitStrategy ==
    /\ InitPipeline
    /\ InitNoRsi
    /\ InitNoProcess
    /\ InitNoSeries
    /\ stock_data \in StockDatas
    /\ strategy_params \in StrategyParams
    /\ analysis = None
    /\ analysisError = NoError

NextStrategy ==
    \/ AnalyzeReturn
    \/ AnalyzeRaise

SpecStrategy == InitStrategy /\ [][NextStrategy]_vars

\* a call of calculate_rsi on any close column
InitRsi ==
    /\ InitPipeline
    /\ InitNoAnalysis
    /\ InitNoProcess
    /\ InitNoSeries
    /\ close \in CloseColumns
    /\ window \in Windows
    /\ rsi = <<>>

NextRsi ==
    \/ CalculateRsi

SpecRsi == InitRsi /\ [][NextRsi]_vars

\* a call of process_stock_data on the dict get_stock_data returns, for any series
InitProcess ==
    /\ InitPipeline
    /\ InitNoAnalysis
    /\ InitNoRsi
    /\ InitNoSeries
    /\ \E col \in SeriesColumns :
          /\ frames = <<[close |-> col]>>
          /\ dicts = <<[current_price |-> col[Len(col)], df |-> 1]>>
    /\ arg = 1
    /\ ret = 0

NextProcess ==
    \/ ProcessStockData

SpecProcess == InitProcess /\ [][NextProcess]_vars

\* get_stock_data from the DataFrame on, for any daily payload that has rows
InitSeries ==
    /\ InitPipeline
    /\ InitNoAnalysis
    /\ InitNoRsi
    /\ InitNoProcess
    /\ time_series \in Payloads
    /\ series_df = <<>>
    /\ snapshot = None

NextSeries ==
    \/ NormalizeSeries

SpecSeries == InitSeries /\ [][NextSeries]_vars

\* get_api_data alone
NextFetch ==
    \/ FetchCall
    \/ ApiRateLimited
    \/ ApiReturn
    \/ ApiException
    \/ ApiExhausted

SpecFetch == Init /\ [][NextFetch]_vars

\* get_stock_data and its two requests
NextData ==
    \/ DataCall
    \/ GsdDailyRaised
    \/ GsdDailyReturned
    \/ GsdOverviewRaised
    \/ GsdOverviewReturned
    \/ ApiRateLimited
    \/ ApiReturn
    \/ ApiException
    \/ ApiExhausted

SpecData == Init /\ [][NextData]_vars

\* get_stock_data_with_cache, called again and again as the clock advances
NextCache ==
    \/ CacheCall
    \/ CacheFetchRaised
    \/ CacheStore
    \/ Tick
    \/ GsdDailyRaised
    \/ GsdDailyReturned
    \/ GsdOverviewRaised
    \/ GsdOverviewReturned
    \/ ApiRateLimited
    \/ ApiReturn
    \/ ApiException
    \/ ApiExhausted

SpecCache == Init /\ [][NextCache]_vars

\* one run of main
NextMain ==
    \/ MainStart
    \/ MainFetch
    \/ MainFetchRaised
    \/ MainPipeline
    \/ MainFinish
    \/ MainExit
    \/ CacheFetchRaised
    \/ CacheStore
    \/ GsdDailyRaised
    \/ GsdDailyReturned
    \/ GsdOverviewRaised
    \/ GsdOverviewReturned
    \/ ApiRateLimited
    \/ ApiReturn
    \/ ApiException
    \/ ApiExhausted

SpecMain == Init /\ [][NextMain]_vars

Spec == SpecMain

----------------------------------------------------------------------------
(* The fetcher: get_api_data *)

ApiDone == apiPc \in {"returned", "raised"}

LastAttempt == attempts[Len(attempts)]

\* C1: when the last attempt of get_api_data met the rate-limit marker (so also
\* when all max_retries attempts did), the call ends with an exception raised to
\* the caller; it never returns normally without a payload.
C1_RateLimitExhaustionRaises ==
    /\ (apiPc = "returned" => apiResult # None)
    /\ (ApiDone /\ attempts # <<>> /\ LastAttempt.response = "rate_limited" => apiPc = "raised")

\* C2: whatever the upstream answers, a call issues at most max_retries requests
\* and is over after them: rate-limited and failed attempts use up the same loop
\* variable, one unit per request, and a payload without the marker is returned by
\* the very attempt that received it, which is the last request of the call.
C2_BoundedRequests ==
    /\ Len(attempts) <= max_retries
    /\ Len(httpLog) = Len(attempts)
    /\ attempt <= max_retries
    /\ (apiPc = "loop" => attempt = Len(attempts))
    /\ \A k \in 1..Len(attempts) :
        /\ (attempts[k].response \in {"rate_limited", "exception"} /\ k < Len(attempts)
               => attempt >= k)
        /\ (attempts[k].response = "payload"
               => /\ k = Len(attempts)
                  /\ apiPc = "returned"
                  /\ apiResult # None
                  /\ ~IsRateLimited(apiResult))

\* C2 witness: a call with max_retries = 3 that met a rate limit, then an
\* exception, then a payload, which it returned
C2_Witness ==
    /\ apiPc = "returned"
    /\ max_retries = DefaultMaxRetries
    /\ Len(attempts) = max_retries
    /\ attempts[1].response = "rate_limited"
    /\ attempts[2].response = "exception"
    /\ attempts[3].response = "payload"
    /\ apiResult # None

----------------------------------------------------------------------------
(* The expiring cache: get_stock_data_with_cache *)

CacheDone == cachePc \in {"returned", "raised"}

\* the age, at the freshness test, of the entry the call in hand found
AgeAtLookup == cacheCall.at - cacheCall.entry.mtime

\* the result of the fetch the call in hand made
FreshResult == StockData(cacheSymbol, cacheCall.fetchesBefore + 1)

\* what get_stock_data can raise
FetchErrors ==
    RequestExceptions \cup
    {Exc("AttributeError", "data_daily.keys"), Exc("AttributeError", "data_overview.keys"),
     Exc("ValueError", "time_series"), Exc("ValueError", "float(PERatio)")}

\* C4 as stated: a call that finds a stored result younger than the expiry returns
\* it and invokes get_stock_data not at all.
C4_FreshEntryAlwaysHit ==
    CacheDone /\ cacheCall.entry # NoFile /\ cacheCall.entry.content # Truncated
        /\ AgeAtLookup < cache_expiry_hours
    => /\ cachePc = "returned"
       /\ cacheResult = cacheCall.entry.content
       /\ fetches[cacheSymbol] = cacheCall.fetchesBefore

\* C4 amended: a call that finds a stored result younger than the expiry, and
\* whose read of it does not fail, returns it and invokes get_stock_data not at
\* all, so that the two calls make one upstream fetch between them.
C4_FreshReadableEntryHit ==
    CacheDone /\ cacheCall.entry # NoFile /\ cacheCall.entry.content # Truncated
        /\ AgeAtLookup < cache_expiry_hours /\ cacheCall.read # "failed"
    => /\ cachePc = "returned"
       /\ cacheResult = cacheCall.entry.content
       /\ fetches[cacheSymbol] = cacheCall.fetchesBefore
       /\ EntryOf(cacheSymbol) = cacheCall.entry

\* C4 witness: the second of two calls for a symbol, an hour after the first stored
\* its result, returns that result; one fetch was made in all
C4_Witness ==
    /\ cachePc = "returned"
    /\ calls = 2
    /\ cacheCall.entry # NoFile
    /\ AgeAtLookup = 1
    /\ AgeAtLookup < cache_expiry_hours
    /\ cacheCall.read = "ok"
    /\ cacheResult = StockData(cacheSymbol, 1)
    /\ fetches[cacheSymbol] = 1

\* C5 as stated: a call that finds an entry at least as old as the expiry does not
\* read it; it invokes get_stock_data, and when that returns, the entry holds the
\* fresh result under a fresh timestamp.
C5_ExpiredEntryAlwaysOverwritten ==
    cachePc # "idle" /\ cacheCall.entry # NoFile /\ AgeAtLookup >= cache_expiry_hours
    => /\ cacheCall.read = "none"
       /\ fetches[cacheSymbol] = cacheCall.fetchesBefore + 1
       /\ (cachePc = "returned"
             => /\ cacheResult = FreshResult
                /\ cacheResult # cacheCall.entry.content
                /\ EntryOf(cacheSymbol).content = FreshResult
                /\ EntryOf(cacheSymbol).mtime >= cacheCall.at)

\* C5 amended: a call that finds an entry at least as old as the expiry (exactly
\* as old included) does not read it; it invokes get_stock_data and returns that
\* fetch's result, and when the fetch and the store both succeed the entry holds
\* the fresh result under a fresh timestamp.
C5_ExpiredEntryRefetched ==
    cachePc # "idle" /\ cacheCall.entry # NoFile /\ AgeAtLookup >= cache_expiry_hours
    => /\ cacheCall.read = "none"
       /\ fetches[cacheSymbol] = cacheCall.fetchesBefore + 1
       /\ (cachePc = "returned"
             => /\ cacheResult = FreshResult
                /\ cacheResult # cacheCall.entry.content
                /\ (cacheCall.store = "stored"
                      => /\ EntryOf(cacheSymbol).content = FreshResult
                         /\ EntryOf(cacheSymbol).mtime >= cacheCall.at
                         /\ EntryOf(cacheSymbol).mtime <= now
                         /\ EntryOf(cacheSymbol).mtime > cacheCall.entry.mtime))

\* C5 witness: a call finds an intact entry exactly as old as the expiry, fetches
\* and stores the second result
C5_Witness ==
    /\ cachePc = "returned"
    /\ cacheCall.entry # NoFile
    /\ cacheCall.entry.content = StockData(cacheSymbol, 1)
    /\ AgeAtLookup = cache_expiry_hours
    /\ cacheCall.store = "stored"
    /\ cacheResult = StockData(cacheSymbol, 2)
    /\ EntryOf(cacheSymbol).content = StockData(cacheSymbol, 2)

\* C6: when the entry is there and young enough but reading it fails, the call
\* goes on to get_stock_data: it returns that fetch's result, and no exception
\* other than one of that fetch reaches the caller.
C6_FailedReadIsAMiss ==
    cachePc # "idle" /\ cacheCall.read = "failed"
    => /\ cacheCall.entry # NoFile
       /\ AgeAtLookup < cache_expiry_hours
       /\ fetches[cacheSymbol] = cacheCall.fetchesBefore + 1
       /\ (cachePc = "returned" => cacheResult = FreshResult /\ cacheError = NoError)
       /\ (cachePc = "raised" => cacheError \in FetchErrors)

\* C6 witness: the read of an intact, young entry fails and the call returns the
\* result of a new fetch
C6_Witness ==
    /\ cachePc = "returned"
    /\ cacheCall.read = "failed"
    /\ cacheCall.entry.content = StockData(cacheSymbol, 1)
    /\ cacheResult = StockData(cacheSymbol, 2)

\* C7: when the store fails, the call still returns the result it has just
\* fetched, and raises nothing.
C7_FailedStoreStillReturns ==
    cachePc # "idle" /\ cacheCall.store \in {"open_failed", "dump_failed"}
    => /\ cachePc = "returned"
       /\ cacheError = NoError
       /\ cacheResult = FreshResult
       /\ fetches[cacheSymbol] = cacheCall.fetchesBefore + 1

\* C7 witness: the dump fails half way, the file is left truncated, the call
\* returns the fetched result
C7_Witness ==
    /\ cachePc = "returned"
    /\ cacheCall.store = "dump_failed"
    /\ EntryOf(cacheSymbol).content = Truncated
    /\ cacheResult = FreshResult

\* C8: each symbol has its own cache file, and at most one entry; a call for a
\* symbol returns on a hit what that symbol's entry held, leaves every other
\* symbol's entry as it was, changes its own entry only by its store, and a miss
\* that fetched and stored leaves the fetched result in place of the previous entry.
C8_EntriesKeyedBySymbol ==
    /\ \A a, b \in Symbols : a # b => CacheFile(a) # CacheFile(b)
    /\ DOMAIN cache = CacheFiles
    /\ \A a \in Symbols :
        EntryOf(a) # NoFile /\ EntryOf(a).content # Truncated => EntryOf(a).content.symbol = a
    /\ (cachePc # "idle" =>
        /\ \A b \in Symbols \ {cacheSymbol} : EntryOf(b) = cacheCall.others[b]
        /\ (cachePc = "returned" /\ cacheCall.store = "none"
              => cacheResult = cacheCall.entry.content /\ cacheResult.symbol = cacheSymbol)
        /\ (cacheCall.store = "none" => EntryOf(cacheSymbol) = cacheCall.entry)
        /\ (cacheCall.store = "stored"
              => /\ EntryOf(cacheSymbol).content = cacheResult
                 /\ cacheResult = FreshResult
                 /\ EntryOf(cacheSymbol) # cacheCall.entry))

\* C8 witness: a miss for one symbol stores its result while the other symbol's
\* entry, stored by an earlier call, stays as it was
C8_Witness ==
    /\ cachePc = "returned"
    /\ cacheCall.store = "stored"
    /\ \E b \in Symbols \ {cacheSymbol} :
        /\ cacheCall.others[b] # NoFile
        /\ cacheCall.others[b].content = StockData(b, 1)
        /\ EntryOf(b) = cacheCall.others[b]
    /\ EntryOf(cacheSymbol).content = StockData(cacheSymbol, 1)

----------------------------------------------------------------------------
(* The normalizer's entry: get_stock_data *)

GsdDone == gsdPc \in {"returned", "raised"}

\* the exception raised for a daily payload without time-series entries
EmptySeriesError == Exc("ValueError", "time_series")

\* C9: when the daily payload has no time-series entries (key absent or
\* collection empty), get_stock_data ends by raising the empty-series error, which
\* is none of the fetcher's exceptions, and no daily request follows the payload.
C9_EmptySeriesRaisesItsOwnError ==
    /\ EmptySeriesError \notin RequestExceptions
    /\ (GsdDone /\ data_daily # None /\ NoTimeSeries(data_daily)
          => gsdPc = "raised" /\ gsdError = EmptySeriesError)
    /\ \A i, j \in 1..Len(httpLog) :
          i < j /\ httpLog[i].function = "OVERVIEW" => httpLog[j].function = "OVERVIEW"

----------------------------------------------------------------------------
(* The run loop: main *)

Statuses == {"success", "error"}

\* the results so far are one entry per symbol processed, in input order
InInputOrder(rs) ==
    /\ Len(rs) <= Len(symbols_to_analyze)
    /\ \A i \in 1..Len(rs) :
        rs[i].symbol = symbols_to_analyze[i] /\ rs[i].status \in Statuses

\* C10: whatever fails for whichever symbols, the loop is never left early: every
\* failure is caught and recorded, and the run returns a results list with one
\* entry per symbol, in input order, each a success or an error, the two counts
\* adding up to the number of symbols.
C10_EverySymbolGetsAnEntry ==
    /\ mainPc # "raised"
    /\ (mainPc \in {"loop", "data"} => InInputOrder(results) /\ Len(results) = idx - 1)
    /\ (mainPc = "returned" /\ "results" \in DOMAIN mainResult
          => /\ InInputOrder(mainResult.results)
             /\ Len(mainResult.results) = Len(symbols_to_analyze)
             /\ mainResult.success_count + mainResult.error_count = Len(symbols_to_analyze))

----------------------------------------------------------------------------
(* The exit status of the process *)

\* the run returned its summary of at least one processed symbol
SummaryReturned ==
    /\ mainPc = "returned"
    /\ "results" \in DOMAIN mainResult
    /\ Len(mainResult.results) >= 1

Exited == exit_code # NoExit

RunOutcomes == {"success", "partial_success", "error"}

\* C11 (as stated): full success, partial success and total failure each exit
\* with a status of their own: the status a run exits with is not the status a
\* run of another outcome exits with.
C11_ThreeExitStatuses ==
    Exited /\ SummaryReturned
        => \A other \in RunOutcomes \ {mainResult.status} : exit_code # ExitCode(other)

\* C11 (amended): the exit status separates total failure from the other two
\* outcomes only: a run that returns its summary exits with 0 when at least one
\* symbol succeeded (all of them or some of them) and with 1 when none did; a run
\* that stops for want of an API key, or that raises, exits with 1.
C11_ExitStatusSeparatesTotalFailure ==
    /\ (Exited /\ SummaryReturned
          => /\ (mainResult.success_count >= 1 => exit_code = 0)
             /\ (mainResult.success_count = 0 => exit_code = 1))
    /\ (Exited /\ mainPc = "returned" /\ "results" \notin DOMAIN mainResult => exit_code = 1)
    /\ (Exited /\ mainPc = "raised" => exit_code = 1)

\* C11 witness: a run of two symbols, one success and one error entry, exited
C11_Witness ==
    /\ Exited
    /\ SummaryReturned
    /\ mainResult.status = "partial_success"
    /\ mainResult.success_count = 1
    /\ mainResult.error_count = 1
    /\ exit_code = 0

----------------------------------------------------------------------------
(* The signal decision: analyze_buy_strategy *)

AnalysisDone == analysis # None \/ analysisError # NoError

\* the thresholds in force
Threshold(key) == Get(ParamsOrDefault(strategy_params), key, DefaultParams[key])

DefaultThresholds == strategy_params \in {None, DefaultParams}

Range52 == stock_data.high_52_week - stock_data.low_52_week

\* price_position < k, from the inputs; an empty range makes the position nan
\* (below nothing) or an infinity of the sign of current_price - low_52_week
PositionBelow(k) ==
    CASE Range52 > 0 -> (stock_data.current_price - stock_data.low_52_week) * 100 < k * Range52
      [] Range52 < 0 -> (stock_data.current_price - stock_data.low_52_week) * 100 > k * Range52
      [] OTHER -> stock_data.current_price < stock_data.low_52_week

\* the predicate of each rule, from the inputs (a comparison with nan is false)
RuleHolds(rule) ==
    CASE rule = "rsi_oversold" ->
            stock_data.rsi # NaN /\ stock_data.rsi < Threshold("rsi_threshold")
      [] rule = "pullback" ->
            /\ stock_data.ma50 # NaN /\ stock_data.current_price < stock_data.ma50
            /\ stock_data.ma200 # NaN /\ stock_data.current_price > stock_data.ma200
      [] rule = "lower_position" ->
            PositionBelow(Threshold("price_position_threshold"))
      [] rule = "golden_cross" ->
            /\ stock_data.ma50 # NaN /\ stock_data.ma200 # NaN
            /\ stock_data.ma50 > stock_data.ma200
            /\ Abs(stock_data.current_price - stock_data.ma50) * 100
                  < Threshold("ma_proximity_threshold") * stock_data.ma50

RuleOrder == <<"rsi_oversold", "pullback", "lower_position", "golden_cross">>

RulesThatHold == {k \in 1..4 : RuleHolds(RuleOrder[k])}

\* C12: buy_signals holds exactly one reason for each rule whose predicate holds,
\* in the order 1, 2, 3, 4 of the rules, whatever the other rules did, and
\* signals_count is the number of predicates that hold, between 0 and 4; the list
\* is therefore determined by the inputs.
C12_RulesIndependentInOrder ==
    analysis # None
        => /\ analysis.signals_count = Cardinality(RulesThatHold)
           /\ analysis.signals_count = Len(analysis.buy_signals)
           /\ analysis.signals_count \in 0..4
           /\ \A k \in 1..4 :
                 RuleHolds(RuleOrder[k])
                    <=> \E i \in 1..Len(analysis.buy_signals) : analysis.buy_signals[i] = RuleOrder[k]
           /\ \A i, j \in 1..Len(analysis.buy_signals) :
                 i < j => \E k, l \in 1..4 : /\ k < l
                                             /\ analysis.buy_signals[i] = RuleOrder[k]
                                             /\ analysis.buy_signals[j] = RuleOrder[l]

\* C12 witness: rules 1, 3 and 4 fired and rule 2 did not
C12_Witness ==
    /\ analysis # None
    /\ analysis.buy_signals = <<"rsi_oversold", "lower_position", "golden_cross">>
    /\ ~RuleHolds("pullback")

\* C13: the recommendation follows from signals_count alone: BUY_CANDIDATE for 2
\* or more, WATCH for 1, AVOID for 0; the downtrend input (rsi 50, ma50 140,
\* ma200 160, price 150, range 100..200, default thresholds) gives AVOID.
DowntrendInput ==
    /\ stock_data.rsi = 50
    /\ stock_data.ma50 = 140
    /\ stock_data.ma200 = 160
    /\ stock_data.current_price = 150
    /\ stock_data.low_52_week = 100
    /\ stock_data.high_52_week = 200
    /\ DefaultThresholds

C13_RecommendationFromCount ==
    /\ (analysis # None
          => /\ (analysis.signals_count >= 2 => analysis.recommendation = "BUY_CANDIDATE")
             /\ (analysis.signals_count = 1 => analysis.recommendation = "WATCH")
             /\ (analysis.signals_count = 0 => analysis.recommendation = "AVOID"))
    /\ (AnalysisDone /\ DowntrendInput
          => /\ analysis # None
             /\ analysis.signals_count = 0
             /\ analysis.recommendation = "AVOID")

\* C13 witness: the downtrend input, analysed
C13_Witness ==
    /\ DowntrendInput
    /\ analysis # None
    /\ analysis.recommendation = "AVOID"

\* the band a price position lies in, from the inputs; the highest band is the
\* else of the others, so it takes whatever is not below 80
InBand(band) ==
    CASE band = "near_low" -> PositionBelow(20)
      [] band = "lower" -> ~PositionBelow(20) /\ PositionBelow(40)
      [] band = "middle" -> ~PositionBelow(40) /\ PositionBelow(60)
      [] band = "higher" -> ~PositionBelow(60) /\ PositionBelow(80)
      [] band = "near_high" -> ~PositionBelow(80)

Bands == {"near_low", "lower", "middle", "higher", "near_high"}

\* C14: market_position is the one band, of the five bands pct < 20,
\* 20 <= pct < 40, 40 <= pct < 60, 60 <= pct < 80 and pct >= 80 (the else of the
\* chain), that the price position lies in, whatever the rules and the
\* recommendation are.
C14_MarketPositionIsTheBand ==
    analysis # None
        => /\ analysis.market_position \in Bands
           /\ InBand(analysis.market_position)
           /\ \A band \in Bands \ {analysis.market_position} : ~InBand(band)

\* C14 witness: a price position of exactly 40 percent, in the middle band, of
\* an input that fires two rules
C14_Witness ==
    /\ analysis # None
    /\ Range52 > 0
    /\ ~PositionBelow(40)
    /\ PositionBelow(41)
    /\ analysis.market_position = "middle"
    /\ analysis.signals_count = 2

\* the price position reported is a number between lo and hi percent
PctWithin(lo, hi) ==
    /\ analysis.price_position_percentage.kind = "num"
    /\ analysis.price_position_percentage.hundredths >= lo * 100
    /\ analysis.price_position_percentage.hundredths <= hi * 100

\* C15: whenever high_52_week > low_52_week, the price position reported lies in
\* [0, 100].
C15_PricePositionInRange ==
    analysis # None /\ Range52 > 0 => PctWithin(0, 100)

\* C16: with high_52_week > low_52_week, the price position reported is exactly 0
\* for current_price = low_52_week and exactly 100 for current_price = high_52_week.
C16_PricePositionAtTheEnds ==
    analysis # None /\ Range52 > 0
        => /\ (stock_data.current_price = stock_data.low_52_week => PctWithin(0, 0))
           /\ (stock_data.current_price = stock_data.high_52_week => PctWithin(100, 100))

\* C16 witness: a price at the 52-week high of a range that is not empty
C16_Witness ==
    /\ analysis # None
    /\ Range52 > 0
    /\ stock_data.current_price = stock_data.high_52_week
    /\ PctWithin(100, 100)

\* C17: when high_52_week = low_52_week the call does not raise: it returns a
\* complete result whose price position is a number.
C17_FlatRangeHasAFallback ==
    AnalysisDone /\ Range52 = 0
        => /\ analysisError = NoError
           /\ analysis # None
           /\ analysis.price_position_percentage.kind = "num"
           /\ analysis.market_position \in Bands

\* the scenario of C18
ScenarioInput ==
    /\ stock_data.current_price = 150
    /\ stock_data.high_52_week = 200
    /\ stock_data.low_52_week = 100
    /\ stock_data.ma50 = 160
    /\ stock_data.ma200 = 140
    /\ stock_data.rsi = 25
    /\ DefaultThresholds

\* C18: for current_price 150, high 200, low 100, ma50 160, ma200 140, rsi 25 and
\* the default thresholds, exactly rules 1 and 2 fire, signals_count is 2, the
\* recommendation is BUY_CANDIDATE, the price position is 50 and the market
\* position is the middle band.
C18_Scenario ==
    AnalysisDone /\ ScenarioInput
        => /\ analysis # None
           /\ analysis.buy_signals = <<"rsi_oversold", "pullback">>
           /\ analysis.signals_count = 2
           /\ analysis.recommendation = "BUY_CANDIDATE"
           /\ PctWithin(50, 50)
           /\ analysis.market_position = "middle"

\* C18 witness: the scenario, analysed
C18_Witness ==
    /\ ScenarioInput
    /\ analysis # None
    /\ analysis.signals_count = 2

----------------------------------------------------------------------------
(* The RSI column: calculate_rsi *)

RsiDone == rsi # <<>>

\* the rows of the column; row i is index i - 1 of the series
Rows == 1..Len(rsi)

Defined(x) == x.kind # "nan"

\* row i has a full window of day-over-day changes behind it, window rows each
\* with a previous row
FullWindow(i) == i >= window + 1

\* the average loss over the window of row i is 0: no close of the window is
\* below the close of the row before it
NoLossInWindow(i) ==
    /\ FullWindow(i)
    /\ \A j \in (i - window + 1)..i : close[j] >= close[j - 1]

\* C19: with window 14, wherever RSI is defined it lies in [0, 100], and whenever
\* the average loss of the window is 0, also in a flat window whose average gain
\* is 0 too, RSI is exactly 100.
C19_RsiBoundedAndCapped ==
    RsiDone /\ window = DefaultRsiWindow
        => \A i \in Rows :
             /\ (Defined(rsi[i])
                   => /\ rsi[i].kind = "num"
                      /\ rsi[i].num >= 0
                      /\ rsi[i].num <= 100 * rsi[i].den)
             /\ (NoLossInWindow(i)
                   => /\ rsi[i].kind = "num"
                      /\ rsi[i].num = 100 * rsi[i].den)

\* C20: with window 14, RSI is undefined in the first 14 rows (indices 0..13) and
\* defined only from index 14 on, where 14 real changes are available.
C20_RsiUndefinedForFirst14 ==
    RsiDone /\ window = DefaultRsiWindow
        => \A i \in Rows : Defined(rsi[i]) => FullWindow(i)

----------------------------------------------------------------------------
(* The moving averages and the frame of process_stock_data *)

ProcessDone == ret # 0

\* the DataFrame of the dict returned
ReturnedFrame == frames[dicts[ret].df]

RECURSIVE WindowSum(_, _, _)
\* the sum of the w closes that end at row i
WindowSum(col, i, w) == IF w = 0 THEN 0 ELSE col[i] + WindowSum(col, i - 1, w - 1)

\* the column is the simple moving average of window w of the close column: row i
\* is index i - 1 of the series
IsMovingAverage(col, w) ==
    /\ Len(col) = Len(ReturnedFrame.close)
    /\ \A i \in 1..Len(col) :
         /\ (i - 1 < w - 1 => col[i].kind = "nan")
         /\ (i - 1 >= w - 1
               => /\ col[i].kind = "num"
                  /\ col[i].num * w = col[i].den * WindowSum(ReturnedFrame.close, i, w))

\* C21: the moving average of window w in {50, 200} is undefined at every index
\* below w - 1 and is the arithmetic mean of the closes i-w+1..i at every index
\* i >= w - 1; so ma200 of a series of 200 points or more is defined from index
\* 199 on and undefined before.
C21_MovingAverages ==
    ProcessDone
        => /\ IsMovingAverage(ReturnedFrame.ma50, 50)
           /\ IsMovingAverage(ReturnedFrame.ma200, 200)
           /\ (Len(ReturnedFrame.close) >= 200
                 => \A i \in 1..Len(ReturnedFrame.close) :
                       ReturnedFrame.ma200[i].kind = "num" <=> i - 1 >= 199)

\* C21 witness: a series of 201 points that is not flat, with ma200 undefined at
\* index 198 and defined at index 199
C21_Witness ==
    /\ ProcessDone
    /\ Len(ReturnedFrame.close) = 201
    /\ ReturnedFrame.close[1] # ReturnedFrame.close[2]
    /\ ReturnedFrame.ma200[199].kind = "nan"
    /\ ReturnedFrame.ma200[200].kind = "num"
    /\ ReturnedFrame.ma50[50].kind = "num"

IndicatorColumns ==
    {"ma50", "ma200", "rsi", "macd", "signal", "macd_hist", "ma20", "upper_band", "lower_band"}

IndicatorKeys == {"ma50", "ma200", "rsi"}

\* C24: process_stock_data does not change what it is given: the caller's dict
\* and its DataFrame have the same keys, columns and values after the call as
\* before, and the indicator columns and the ma50, ma200 and rsi keys are those
\* of the dict returned and of its DataFrame, which are other objects.
C24_InputNotMutated ==
    [][ret' # 0
         => /\ dicts'[arg] = dicts[arg]
            /\ frames'[dicts[arg].df] = frames[dicts[arg].df]
            /\ IndicatorKeys \cap DOMAIN dicts'[arg] = {}
            /\ IndicatorColumns \cap DOMAIN frames'[dicts'[arg].df] = {}
            /\ ret' # arg
            /\ dicts'[ret'].df # dicts'[arg].df
            /\ IndicatorKeys \subseteq DOMAIN dicts'[ret']
            /\ IndicatorColumns \subseteq DOMAIN frames'[dicts'[ret'].df]]_vars

\* C24 witness: the call has returned a dict with the indicators of a series of
\* 15 points, and the caller's DataFrame has its close column only
C24_Witness ==
    /\ ProcessDone
    /\ Len(ReturnedFrame.close) = 15
    /\ "rsi" \in DOMAIN ReturnedFrame
    /\ DOMAIN frames[dicts[arg].df] = {"close"}
    /\ dicts[ret].rsi.kind = "num"

----------------------------------------------------------------------------
(* The price series: get_stock_data from the DataFrame on *)

SeriesDone == snapshot # None

\* the latest date of the payload
LatestDate == CHOOSE d \in {time_series[i].date : i \in 1..Len(time_series)} :
                 \A i \in 1..Len(time_series) : time_series[i].date <= d

\* the rows of the payload within the 365 days that end at the latest date, by
\* date
WindowDates ==
    {time_series[i].date : i \in {j \in 1..Len(time_series) :
                                     time_series[j].date >= LatestDate - 365}}

RowOf(date) == CHOOSE row \in {time_series[i] : i \in 1..Len(time_series)} : row.date = date

\* the date of the window before a date of the window that is not its first
PreviousDate(date) ==
    CHOOSE p \in WindowDates : p < date /\ \A q \in WindowDates : q < date => q <= p

ChangeDates == {d \in WindowDates : \E p \in WindowDates : p < d}

\* the day-over-day change of the close at a date, as the pair of the change and
\* the close before
CloseChange(date) == RowOf(date).close - RowOf(PreviousDate(date)).close

CloseBefore(date) == RowOf(PreviousDate(date)).close

\* the absolute change at d is more than k percent
ChangeAbove(d, k) == Abs(CloseChange(d)) * 100 > k * CloseBefore(d)

\* the absolute percentage at d is at least the one at e
ChangeAtLeast(d, e) == Abs(CloseChange(d)) * CloseBefore(e) >= Abs(CloseChange(e)) * CloseBefore(d)

\* h hundredths is the percentage of the change at d, to the nearest hundredth
IsRoundedPct(h, d) == 2 * Abs(h * CloseBefore(d) - CloseChange(d) * 10000) <= CloseBefore(d)

\* C22: detected is true exactly when some day-over-day change of the close in
\* the window is above 15 percent in absolute value; date and change_pct are then
\* those of the change largest in absolute value, the earliest one of several,
\* with its sign; otherwise both are None.  A single drop of 20 percent gives
\* its day and -20.
C22_AnomalyIsLargestChange ==
    SeriesDone
        => LET anomaly == snapshot.price_anomaly
           IN /\ anomaly.detected <=> \E d \in ChangeDates : ChangeAbove(d, 15)
              /\ (~anomaly.detected => anomaly.date = None /\ anomaly.change_pct = None)
              /\ (anomaly.detected
                    => /\ anomaly.date \in ChangeDates
                       /\ \A d \in ChangeDates :
                            /\ ChangeAtLeast(anomaly.date, d)
                            /\ (d < anomaly.date => ~ChangeAtLeast(d, anomaly.date))
                       /\ anomaly.change_pct.kind = "num"
                       /\ IsRoundedPct(anomaly.change_pct.hundredths, anomaly.date)
                       /\ (CloseChange(anomaly.date) < 0 <=> anomaly.change_pct.hundredths < 0))
              /\ (\A d \in ChangeDates :
                     CloseChange(d) * 5 = 0 - CloseBefore(d)
                     /\ (\A e \in ChangeDates \ {d} : ~ChangeAbove(e, 15))
                        => /\ anomaly.detected
                           /\ anomaly.date = d
                           /\ anomaly.change_pct.hundredths = 0 - 2000)

\* C22 witness: a rise of 25 percent and then a drop of 25 percent: the rise, the
\* earlier of the two, is reported
C22_Witness ==
    /\ SeriesDone
    /\ Len(series_df) = 3
    /\ series_df[1].close = 80
    /\ series_df[2].close = 100
    /\ series_df[3].close = 75
    /\ series_df[3].date - series_df[1].date <= 365
    /\ snapshot.price_anomaly.detected
    /\ snapshot.price_anomaly.date = series_df[2].date
    /\ snapshot.price_anomaly.change_pct.hundredths = 2500

\* C23: high_52_week and low_52_week are the largest high and the smallest low of
\* exactly the rows dated latest_date - 365 days or later, the day of the
\* boundary included, however many rows those are.
C23_Window52Weeks ==
    SeriesDone
        => /\ snapshot.date = LatestDate
           /\ \E d \in WindowDates : snapshot.high_52_week.hundredths = RowOf(d).high * 100
           /\ \A d \in WindowDates : snapshot.high_52_week.hundredths >= RowOf(d).high * 100
           /\ \E d \in WindowDates : snapshot.low_52_week.hundredths = RowOf(d).low * 100
           /\ \A d \in WindowDates : snapshot.low_52_week.hundredths <= RowOf(d).low * 100

\* C23 witness: the row of day 0 has the highest high and the lowest low and is
\* 366 days old; the row of day 1, 365 days old, counts, and so do the others
C23_Witness ==
    /\ SeriesDone
    /\ Len(series_df) = 4
    /\ snapshot.date = 366
    /\ series_df[1].high = 150
    /\ series_df[2].date = 1
    /\ series_df[2].high = 120
    /\ series_df[3].high < 120
    /\ series_df[4].high < 120
    /\ snapshot.high_52_week.hundredths = 12000

\* the rows ascend strictly by date
Ascending(rows) == \A i \in 1..(Len(rows) - 1) : rows[i].date < rows[i + 1].date

\* C25: whatever the order of the dates in the payload, the series built from it
\* holds the rows of the payload sorted by date, strictly ascending, so without
\* a date twice, its last row is the latest date, and sorting it again changes
\* nothing.
C25_SeriesSortedByDate ==
    SeriesDone
        => /\ Ascending(series_df)
           /\ Len(series_df) = Len(time_series)
           /\ {series_df[i] : i \in 1..Len(series_df)} = {time_series[i] : i \in 1..Len(time_series)}
           /\ series_df[Len(series_df)].date = LatestDate
           /\ snapshot.date = LatestDate
           /\ SortIndex(series_df) = series_df

\* C25 witness: a payload of four rows, latest first
C25_Witness ==
    /\ SeriesDone
    /\ Len(time_series) = 4
    /\ time_series[1].date > time_series[2].date
    /\ time_series[2].date > time_series[3].date
    /\ time_series[3].date > time_series[4].date
    /\ Ascending(series_df)

----------------------------------------------------------------------------
(* What the cache returns, and what a failed fetch leaves *)

\* the results of the successful fetches made so far for a symbol
ResultsFetched(symbol) == {StockData(symbol, n) : n \in 1..fetches[symbol]}

\* C26: whatever calls, expiries, failed reads, failed or partial writes and
\* failed fetches came before, a value returned by get_stock_data_with_cache is
\* the complete result of a fetch made for the same symbol, never a truncated
\* entry and never nothing.
C26_ReturnsOnlyFetchedResults ==
    cachePc = "returned"
        => /\ cacheResult # None
           /\ cacheResult # Truncated
           /\ cacheResult \in ResultsFetched(cacheSymbol)

\* C26 witness: a call meets the truncated file an earlier failed store left, young
\* enough to be fresh, and returns the result of its own fetch
C26_Witness ==
    /\ cachePc = "returned"
    /\ cacheCall.entry # NoFile
    /\ cacheCall.entry.content = Truncated
    /\ IsFresh(cacheCall.at, cacheCall.entry.mtime, cache_expiry_hours)
    /\ cacheResult = StockData(cacheSymbol, fetches[cacheSymbol])

\* the fetch of the call in progress has failed
FetchFailed == cachePc = "raised" /\ cacheError.site # "os.makedirs"

\* C27: when the fetch of a call fails, the call raises the error of the fetch,
\* writes nothing, leaves the entry as it found it, and returns no entry in its
\* place: a call that returns without a successful read returns the result of
\* its own fetch.
C27_FailedFetchPropagates ==
    /\ (cachePc = "fetch" => EntryOf(cacheSymbol) = cacheCall.entry)
    /\ (FetchFailed
          => /\ cacheError \in FetchErrors
             /\ cacheResult = None
             /\ fetches[cacheSymbol] = cacheCall.fetchesBefore + 1
             /\ cacheCall.store = "none"
             /\ EntryOf(cacheSymbol) = cacheCall.entry
             /\ \A s \in Symbols \ {cacheSymbol} : EntryOf(s) = cacheCall.others[s])
    /\ (cachePc = "returned" /\ cacheCall.read # "ok"
          => /\ fetches[cacheSymbol] = cacheCall.fetchesBefore + 1
             /\ cacheResult = StockData(cacheSymbol, fetches[cacheSymbol]))

\* C27 witness: the entry had expired, the fetch failed, the call raised and the
\* entry is still the expired one
C27_Witness ==
    /\ FetchFailed
    /\ cacheCall.entry # NoFile
    /\ cacheCall.entry.content = StockData(cacheSymbol, 1)
    /\ ~IsFresh(cacheCall.at, cacheCall.entry.mtime, cache_expiry_hours)
    /\ EntryOf(cacheSymbol) = cacheCall.entry

----------------------------------------------------------------------------
(* Rules 2 and 4 together, and undefined indicators *)

\* the reasons of a result, as a set
Reasons == {analysis.buy_signals[k] : k \in 1..Len(analysis.buy_signals)}

\* |current_price - ma50| / ma50 < ma_proximity_threshold, from the inputs
CloseToMa50 ==
    /\ stock_data.ma50 # NaN
    /\ Abs(stock_data.current_price - stock_data.ma50) * 100
          < Threshold("ma_proximity_threshold") * stock_data.ma50

\* current_price < ma50 and current_price > ma200, from the inputs
PullbackInput ==
    /\ stock_data.ma50 # NaN /\ stock_data.ma200 # NaN
    /\ stock_data.current_price < stock_data.ma50
    /\ stock_data.current_price > stock_data.ma200

\* C28: in every result, when current_price < ma50 and current_price > ma200 and
\* the price is within ma_proximity_threshold of ma50, rule 4 has fired next to
\* rule 2, signals_count is at least 2 and the recommendation is BUY_CANDIDATE.
C28_PullbackNearMa50IsACandidate ==
    analysis # None /\ PullbackInput /\ CloseToMa50
        => /\ stock_data.ma50 > stock_data.ma200
           /\ "pullback" \in Reasons
           /\ "golden_cross" \in Reasons
           /\ analysis.signals_count >= 2
           /\ analysis.recommendation = "BUY_CANDIDATE"

\* C28 witness: a price between ma200 and ma50 and near ma50, with no other rule
\* firing: the two reasons alone make the candidate
C28_Witness ==
    /\ analysis # None
    /\ PullbackInput /\ CloseToMa50
    /\ analysis.buy_signals = <<"pullback", "golden_cross">>
    /\ analysis.recommendation = "BUY_CANDIDATE"

\* the indicators each rule reads
IndicatorsRead(rule) ==
    CASE rule = "rsi_oversold" -> {stock_data.rsi}
      [] rule = "pullback" -> {stock_data.ma50, stock_data.ma200}
      [] rule = "golden_cross" -> {stock_data.ma50, stock_data.ma200}
      [] OTHER -> {}

ReadsUndefined(rule) == NaN \in IndicatorsRead(rule)

SomeUndefined == \E k \in 1..4 : ReadsUndefined(RuleOrder[k])

\* the rules that read no undefined indicator and whose predicate holds
RemainingRules == {k \in 1..4 : ~ReadsUndefined(RuleOrder[k]) /\ RuleHolds(RuleOrder[k])}

\* C29: a rule that reads an undefined indicator (rule 1 for rsi, rules 2 and 4
\* for ma50 and for ma200) never fires; the call fails only at the division by
\* an empty 52-week range, whatever the indicators are; and the result of a
\* call with undefined indicators carries the reasons of the remaining rules
\* that hold and the recommendation of their number.
C29_UndefinedIndicatorsAreSilent ==
    /\ analysis # None
          => /\ \A k \in 1..4 : ReadsUndefined(RuleOrder[k]) => RuleOrder[k] \notin Reasons
             /\ Reasons = {RuleOrder[k] : k \in RemainingRules}
             /\ analysis.signals_count = Cardinality(RemainingRules)
             /\ analysis.recommendation =
                   (IF Cardinality(RemainingRules) >= 2 THEN "BUY_CANDIDATE"
                    ELSE IF Cardinality(RemainingRules) = 1 THEN "WATCH"
                    ELSE "AVOID")
    /\ analysisError # NoError => Range52 = 0 /\ stock_data.dtype = "python"
    /\ AnalysisDone /\ SomeUndefined /\ Range52 # 0 => analysis # None

\* C29 witness: rsi and ma200 undefined, a price under ma50 and low in the range:
\* the result has the one reason of rule 3
C29_Witness ==
    /\ analysis # None
    /\ stock_data.rsi = NaN /\ stock_data.ma200 = NaN
    /\ stock_data.ma50 # NaN /\ stock_data.current_price < stock_data.ma50
    /\ analysis.buy_signals = <<"lower_position">>
    /\ analysis.recommendation = "WATCH"

----------------------------------------------------------------------------
(* The order of the two requests of get_stock_data *)

\* the positions of the request log that hold a request for a function
RequestsFor(function) == {i \in 1..Len(httpLog) : httpLog[i].function = function}

\* C30: in a get_stock_data call an overview request is issued only once the
\* daily request has returned a payload, after every daily request; a call that
\* ends with no payload (the daily fetch raised, or returned nothing) has issued
\* no overview request; and a payload without time series is met by the
\* overview request first: the empty-series error is raised only after at
\* least one overview request, and never while that request is under way.
C30_OverviewBetweenDailyAndCheck ==
    /\ gsdPc = "daily" => RequestsFor("OVERVIEW") = {}
    /\ RequestsFor("OVERVIEW") # {}
          => /\ data_daily # None
             /\ RequestsFor("TIME_SERIES_DAILY") # {}
             /\ \A i \in RequestsFor("TIME_SERIES_DAILY"), j \in RequestsFor("OVERVIEW") : i < j
    /\ gsdPc = "raised" /\ data_daily = None => RequestsFor("OVERVIEW") = {}
    /\ gsdPc # "idle" /\ data_daily # None /\ NoTimeSeries(data_daily)
          => \/ gsdPc = "overview"
             \/ gsdPc = "raised" /\ RequestsFor("OVERVIEW") # {}
    /\ gsdPc = "raised" /\ gsdError = EmptySeriesError
          => /\ data_daily # None /\ NoTimeSeries(data_daily)
             /\ RequestsFor("OVERVIEW") # {}

\* C30 witness: a daily payload without time series, an overview request that
\* was retried, and then the empty-series error
C30_Witness ==
    /\ gsdPc = "raised"
    /\ gsdError = EmptySeriesError
    /\ NoTimeSeries(data_daily)
    /\ Cardinality(RequestsFor("OVERVIEW")) >= 2
====
